---- MODULE Spec2Model ----
(***************************************************************************)
(* ETS2 Light Sync: the GUI sync worker (app/sync_worker.py) with the      *)
(* window that starts, stops and restarts it (app/main_window.py,          *)
(* app/tray_icon.py, main_gui.py), and the command-line loop (main.py).    *)
(* Light-controller called are not atomic: a caller is "inside" a call from *)
(* the step that issues it to the step in which the call returns.          *)
(***************************************************************************)
EXTENDS Integers, Sequences, FiniteSets, TLC

\* ---- bounds of the model ------------------------------------------------
MaxWorkers == 2      \* SyncWorker objects created in one run of the window
PollSlices == 2      \* 0.5 s sleep slices per poll interval (interval 1.0 s)

\* Python None where an integer is expected; no status, call or outcome yet
None == 0 - 1
NoEvent == "none"
NoCall == <<>>
Workers == 1..MaxWorkers

\* absolute game minutes found in shared memory, and elapsed game minutes
\* of the simulated clock, that the polls draw from
TimeAbsSamples == {375, 2160}
SimTicks == {15, 360}

TelemetryOutcomes == {"ok", "absent", "inactive", "exception"}
HttpOutcomes == {"ok", "neterr", "httperr"}
Tokens == {"", "tok"}

\* ---- light_curve.py -----------------------------------------------------
NIGHT_END_MIN == 330
DAWN_END_MIN == 420
DUSK_START_MIN == 1080
NIGHT_START_MIN == 1200
NIGHT_BRIGHTNESS == 13
DAY_BRIGHTNESS == 255
NIGHT_KELVIN == 2200
DAY_KELVIN == 5500

\* math.cos(j * pi / 360) * CosScale for j = 0..180, to the nearest integer
CosScale == 1000000
CosTable ==
  << 1000000, 999962, 999848, 999657, 999391, 999048, 998630, 998135,
     997564, 996917, 996195, 995396, 994522, 993572, 992546, 991445,
     990268, 989016, 987688, 986286, 984808, 983255, 981627, 979925,
     978148, 976296, 974370, 972370, 970296, 968148, 965926, 963630,
     961262, 958820, 956305, 953717, 951057, 948324, 945519, 942641,
     939693, 936672, 933580, 930418, 927184, 923880, 920505, 917060,
     913545, 909961, 906308, 902585, 898794, 894934, 891007, 887011,
     882948, 878817, 874620, 870356, 866025, 861629, 857167, 852640,
     848048, 843391, 838671, 833886, 829038, 824126, 819152, 814116,
     809017, 803857, 798636, 793353, 788011, 782608, 777146, 771625,
     766044, 760406, 754710, 748956, 743145, 737277, 731354, 725374,
     719340, 713250, 707107, 700909, 694658, 688355, 681998, 675590,
     669131, 662620, 656059, 649448, 642788, 636078, 629320, 622515,
     615661, 608761, 601815, 594823, 587785, 580703, 573576, 566406,
     559193, 551937, 544639, 537300, 529919, 522499, 515038, 507538,
     500000, 492424, 484810, 477159, 469472, 461749, 453990, 446198,
     438371, 430511, 422618, 414693, 406737, 398749, 390731, 382683,
     374607, 366501, 358368, 350207, 342020, 333807, 325568, 317305,
     309017, 300706, 292372, 284015, 275637, 267238, 258819, 250380,
     241922, 233445, 224951, 216440, 207912, 199368, 190809, 182236,
     173648, 165048, 156434, 147809, 139173, 130526, 121869, 113203,
     104528, 95846, 87156, 78459, 69756, 61049, 52336, 43619,
     34899, 26177, 17452, 8727, 0 >>

\* math.cos at j * pi / 360 for j in 0..360, scaled by CosScale
Cos360(j) == IF j <= 180 THEN CosTable[j + 1] ELSE 0 - CosTable[360 - j + 1]

\* _smooth(j / 360), scaled by 2 * CosScale: (1 - cos(t * pi)) / 2
smooth(j) == CosScale - Cos360(j)

\* round(num / den) where the double falls just below a tie (dawn branch:
\* cos(pi/3) is 0.5000000000000001 as a double, so p is a hair low)
RoundLow(num, den) == (2 * num + den - 1) \div (2 * den)

\* Python round(num / den): ties go to the even integer
RoundEven(num, den) ==
  LET f == num \div den
      r == num % den
  IN  IF 2 * r < den THEN f
      ELSE IF 2 * r > den THEN f + 1
      ELSE IF f % 2 = 0 THEN f ELSE f + 1

\* the same curve with a night brightness of 0: the bulb is off at night
calculateLightOffAtNight(game_time_minutes) ==
  LET t == game_time_minutes % 1440
  IN  IF DAWN_END_MIN <= t /\ t < DUSK_START_MIN
        THEN <<DAY_BRIGHTNESS, DAY_KELVIN>>
      ELSE IF NIGHT_END_MIN <= t /\ t < DAWN_END_MIN
        THEN LET p == smooth(((t - NIGHT_END_MIN) * 360) \div (DAWN_END_MIN - NIGHT_END_MIN))
             IN  << RoundLow(0 * 2 * CosScale
                               + p * (DAY_BRIGHTNESS - 0), 2 * CosScale),
                    RoundLow(NIGHT_KELVIN * (CosScale \div 50)
                               + p * ((DAY_KELVIN - NIGHT_KELVIN) \div 100), CosScale \div 50) >>
      ELSE IF DUSK_START_MIN <= t /\ t < NIGHT_START_MIN
        THEN LET p == smooth(((t - DUSK_START_MIN) * 360) \div (NIGHT_START_MIN - DUSK_START_MIN))
             IN  << RoundEven(DAY_BRIGHTNESS * 2 * CosScale
                               - p * (DAY_BRIGHTNESS - 0), 2 * CosScale),
                    RoundEven(DAY_KELVIN * (CosScale \div 50)
                               - p * ((DAY_KELVIN - NIGHT_KELVIN) \div 100), CosScale \div 50) >>
      ELSE <<0, NIGHT_KELVIN>>

calculate_light(game_time_minutes) ==
  LET t == game_time_minutes % 1440
  IN  IF DAWN_END_MIN <= t /\ t < DUSK_START_MIN
        THEN <<DAY_BRIGHTNESS, DAY_KELVIN>>
      ELSE IF NIGHT_END_MIN <= t /\ t < DAWN_END_MIN
        THEN LET p == smooth(((t - NIGHT_END_MIN) * 360) \div (DAWN_END_MIN - NIGHT_END_MIN))
             IN  << RoundLow(NIGHT_BRIGHTNESS * 2 * CosScale
                               + p * (DAY_BRIGHTNESS - NIGHT_BRIGHTNESS), 2 * CosScale),
                    RoundLow(NIGHT_KELVIN * (CosScale \div 50)
                               + p * ((DAY_KELVIN - NIGHT_KELVIN) \div 100), CosScale \div 50) >>
      ELSE IF DUSK_START_MIN <= t /\ t < NIGHT_START_MIN
        THEN LET p == smooth(((t - DUSK_START_MIN) * 360) \div (NIGHT_START_MIN - DUSK_START_MIN))
             IN  << RoundEven(DAY_BRIGHTNESS * 2 * CosScale
                               - p * (DAY_BRIGHTNESS - NIGHT_BRIGHTNESS), 2 * CosScale),
                    RoundEven(DAY_KELVIN * (CosScale \div 50)
                               - p * ((DAY_KELVIN - NIGHT_KELVIN) \div 100), CosScale \div 50) >>
      ELSE <<NIGHT_BRIGHTNESS, NIGHT_KELVIN>>

\* ---- telemetry.py, sync_worker._sim_time ----------------------------------
\* get_game_time(): the snapshot's game time, or None when the read fails
get_game_time(outcome, time_abs) ==
  IF outcome = "ok" THEN time_abs % 1440 ELSE None

\* _sim_time(start, speed, epoch) with ticks = elapsed * speed
sim_time(start, ticks) == (start + ticks) % 1440

\* ---- ha_client.py ---------------------------------------------------------
\* HomeAssistantClient.__init__: raises ValueError when the token is empty
ClientInit(token) == IF token = "" THEN "ValueError" ELSE "ok"

\* _call() that lets an HTTP error status propagate to the caller
callRaiseForStatus(outcome) ==
  IF outcome \in {"ok", "neterr", "timeout"} THEN "returned" ELSE "raised"

\* HomeAssistantClient._call: one POST; RequestException is swallowed
call(outcome) ==
  IF outcome \in {"ok", "neterr", "timeout", "httperr"} THEN "returned" ELSE "raised"

\* ---- state ----------------------------------------------------------------
VARIABLES
  \* SyncWorker (one entry per worker object)
  pc,                \* position of run(); "unstarted" before start()
  _running,          \* SyncWorker._running
  game_was_running,  \* run(): game_was_running
  elapsed,           \* run(): sleep slices done in the current wait
  game_time,         \* run(): game_time of the current iteration
  brightness,        \* run(): brightness of the current iteration
  color_temp,        \* run(): color_temp of the current iteration
  sim,               \* run(): sim_mode read from the configuration
  \* MainWindow, the Qt event queue and the process
  worker,            \* MainWindow._worker (0 is None)
  nworkers,          \* SyncWorker objects created so far
  start_enabled,     \* Start button and tray Start action
  stop_enabled,      \* Stop button and tray Stop action
  sigq,              \* queued signals of the workers not yet delivered
  main_pc,           \* main thread: "gui", "wait", "atexit", "exit_reset", "exited"
  ha_token,          \* settings.json: ha_token
  sim_mode,          \* settings.json: sim_mode
  \* what an observer of one worker has seen while its thread exists
  last_event,        \* latest status, light call or light_updated of the worker
  last_status,       \* latest status the worker emitted
  last_call,         \* latest light call issued in the current loop iteration
  last_update,       \* light_updated emitted in the current loop iteration
  last_outcome,      \* how the light call of the current loop iteration ended
  poll_calls,        \* light calls issued in the current loop iteration
  time_source,       \* where the game time of the current loop iteration came from
  cleanup_resets,    \* reset calls issued after the loop was left
  called,            \* the worker has issued a light call
  stop_requested,    \* stop() was called on the worker after start()
  \* command-line loop (main.py)
  cli_pc,
  cli_sim,               \* main.SIM_MODE
  cli_running,           \* main._running
  cli_game_was_running,  \* main(): game_was_running
  cli_game_time,         \* main(): game_time
  last_brightness,       \* main(): last_brightness
  last_color_temp,       \* main(): last_color_temp
  cli_failed,            \* the latest set_light of this connection failed
  cli_issued             \* light call issued in the current iteration, or None

wvars == <<pc, _running, game_was_running, elapsed, game_time, brightness, color_temp, sim>>
gvars == <<worker, nworkers, start_enabled, stop_enabled, sigq, main_pc, ha_token, sim_mode>>
ovars == <<last_event, last_status, last_call, last_update, last_outcome, poll_calls,
           time_source, cleanup_resets, called, stop_requested>>
clivars == <<cli_pc, cli_sim, cli_running, cli_game_was_running, cli_game_time, last_brightness,
             last_color_temp, cli_failed, cli_issued>>

VARIABLES
  \* HomeAssistantClient (ha_client.py): one client object and its current call
  default_brightness,    \* self.default_brightness
  default_color_temp_k,  \* self.default_color_temp_k
  transition,            \* self.transition
  ha_pc,                 \* "idle", or "posting" inside _call()
  ha_op,                 \* the public call in progress or last made
  ha_request,            \* the request of the latest POST: service and JSON payload
  ha_posts,              \* POST attempts made by the call in progress or last made
  ha_outcome,            \* how the latest POST ended
  \* _kelvin_to_mireds(): argument and returned value
  kelvin,
  mireds,
  \* location.py: the module-level cache
  _cached_x,
  _cached_z,
  _cached_tz_name,
  _cached_offset_min,
  \* what a caller of location.py has seen
  loc_event,             \* the latest call: "resolve", "reset" or none
  loc_query,             \* position of the latest get_timezone_offset() call
  loc_result,            \* tuple returned by the latest get_timezone_offset() call
  loc_looked,            \* the latest get_timezone_offset() call performed a lookup
  loc_origin,            \* position and produced tuple of the latest lookup
  loc_fresh,             \* no non-NaN position was resolved since reset_cache()
  tz_lookup,             \* what TimezoneFinder/ZoneInfo would answer now
  loc_before_reset,      \* cached position that the latest reset_cache() cleared, while
                         \* at most one position was resolved since
  \* telemetry.py: one call of get_telemetry()
  tel_pc,                \* position inside get_telemetry()/_read_shared_memory()
  tel_env,               \* the platform, kernel32 and the shared memory during the call
  tel_handle,            \* a handle from OpenFileMappingW is open
  tel_view,              \* a view from MapViewOfFile is mapped
  tel_pending,           \* value or exception on its way out through the finally blocks
  tel_result,            \* what the latest call gave its caller
  \* _sim_time(): arguments and value of the latest call
  tel_sim_args,
  tel_sim,
  \* one evaluation of a curve: _interp_at() on a waypoint list, or calculate_light()
  ev_pc,                 \* "idle" before the call, "done" after it
  ev_curve,              \* the waypoint list; none for the built-in curve of calculate_light()
  ev_t,                  \* the time argument
  ev_k,                  \* the number of days the second evaluation is shifted by
  ev_raw,                \* the two values _interp_at() returned at ev_t
  ev_out,                \* (brightness, kelvin) at ev_t
  ev_shifted,            \* (brightness, kelvin) at ev_t + 1440 * ev_k
  \* curve_editor.py: CurveEditorDialog and its CurvePreviewWidget
  _wps,                  \* CurveEditorDialog._wps
  canvas_wps,            \* CurvePreviewWidget._wps
  _drag_idx,             \* index of the dragged handle, counted from 1; 0 for None
  _drag_t_min,
  _drag_t_max,
  ed_event,              \* the latest handler and how it ended
  ed_ops                 \* handlers run since the editor was opened

havars == <<default_brightness, default_color_temp_k, transition, ha_pc, ha_op, ha_request,
            ha_posts, ha_outcome>>
mivars == <<kelvin, mireds>>
locvars == <<_cached_x, _cached_z, _cached_tz_name, _cached_offset_min, loc_event, loc_query,
             loc_result, loc_looked, loc_origin, loc_fresh, tz_lookup,
             loc_before_reset>>
telvars == <<tel_pc, tel_env, tel_handle, tel_view, tel_pending, tel_result, tel_sim_args,
             tel_sim>>
evvars == <<ev_pc, ev_curve, ev_t, ev_k, ev_raw, ev_out, ev_shifted>>
edvars == <<_wps, canvas_wps, _drag_idx, _drag_t_min, _drag_t_max, ed_event, ed_ops>>
libvars == <<havars, mivars, locvars, telvars, evvars, edvars>>
vars == <<wvars, gvars, ovars, clivars, libvars>>

\* QThread.isRunning(): from start() until run() has returned
isRunning(w) == pc[w] \notin {"unstarted", "finished", "died"}

\* the worker is inside a light-controller call
InLightCall(w) == pc[w] \in {"disc_reset", "set_light", "cleanup_reset"}

Alive == main_pc # "exited"

\* ---- construction ---------------------------------------------------------
WorkerInit ==
  /\ pc = [w \in Workers |-> "unstarted"]
  /\ _running = [w \in Workers |-> FALSE]
  /\ game_was_running = [w \in Workers |-> FALSE]
  /\ elapsed = [w \in Workers |-> 0]
  /\ game_time = [w \in Workers |-> None]
  /\ brightness = [w \in Workers |-> None]
  /\ color_temp = [w \in Workers |-> None]
  /\ sim = [w \in Workers |-> FALSE]
  /\ last_event = [w \in Workers |-> NoEvent]
  /\ last_status = [w \in Workers |-> NoEvent]
  /\ last_call = [w \in Workers |-> NoCall]
  /\ last_update = [w \in Workers |-> NoCall]
  /\ last_outcome = [w \in Workers |-> NoEvent]
  /\ poll_calls = [w \in Workers |-> 0]
  /\ time_source = [w \in Workers |-> NoEvent]
  /\ cleanup_resets = [w \in Workers |-> 0]
  /\ called = [w \in Workers |-> FALSE]
  /\ stop_requested = [w \in Workers |-> FALSE]

GuiInit ==
  /\ worker = 0
  /\ nworkers = 0
  /\ start_enabled = TRUE
  /\ stop_enabled = FALSE
  /\ sigq = <<>>
  /\ main_pc = "gui"

CliIdle ==
  /\ cli_pc = "unstarted"
  /\ cli_sim = FALSE
  /\ cli_running = TRUE
  /\ cli_game_was_running = FALSE
  /\ cli_game_time = None
  /\ last_brightness = None
  /\ last_color_temp = None
  /\ cli_failed = FALSE
  /\ cli_issued = NoCall

\* no request sent yet
NoRequest == [service |-> "none", payload |-> [entity_id |-> ""]]

\* float NaN, and None in a cache coordinate: values outside the map
NaN == 0 - 2000000
NoCoord == 0 - 1000000
\* None as a timezone name
NoTz == "None"

\* ha_client.py, lines 25-30: the defaults of the environment
HaIdle ==
  /\ default_brightness = 255
  /\ default_color_temp_k = 4000
  /\ transition = 1
  /\ ha_pc = "unbuilt"
  /\ ha_op = NoCall
  /\ ha_request = NoRequest
  /\ ha_posts = 0
  /\ ha_outcome = NoEvent

MiredsIdle ==
  /\ kelvin = 4000
  /\ mireds = None

\* location.py, lines 48-51
LocIdle ==
  /\ _cached_x = NoCoord
  /\ _cached_z = NoCoord
  /\ _cached_tz_name = NoTz
  /\ _cached_offset_min = 0
  /\ loc_event = NoEvent
  /\ loc_query = <<NoCoord, NoCoord>>
  /\ loc_result = NoCall
  /\ loc_looked = FALSE
  /\ loc_origin = NoCall
  /\ loc_fresh = TRUE
  /\ tz_lookup = <<"notfound">>
  /\ loc_before_reset = <<NoCoord, NoCoord>>

\* a value no call has produced yet, None as a result, an exception in flight
TelNone == <<"None">>
Exc == <<"exception">>

\* nothing of the platform, kernel32 or the shared memory was consulted yet
NoEnv ==
  [platform |-> NoEvent, open |-> NoEvent, map |-> NoEvent, sdk_active |-> FALSE,
   decode |-> NoEvent, time_abs |-> <<0, 0>>, paused |-> FALSE, truck |-> <<NaN, NaN>>]

\* no call of telemetry.py is in progress and none was made
TelIdle ==
  /\ tel_pc = "idle"
  /\ tel_env = NoEnv
  /\ tel_handle = FALSE
  /\ tel_view = FALSE
  /\ tel_pending = NoCall
  /\ tel_result = NoCall
  /\ tel_sim_args = NoCall
  /\ tel_sim = None

\* no curve was evaluated
EvalIdle ==
  /\ ev_pc = "idle"
  /\ ev_curve = NoCall
  /\ ev_t = None
  /\ ev_k = 0
  /\ ev_raw = NoCall
  /\ ev_out = NoCall
  /\ ev_shifted = NoCall

\* no curve editor is open
EditIdle ==
  /\ _wps = NoCall
  /\ canvas_wps = NoCall
  /\ _drag_idx = 0
  /\ _drag_t_min = 0
  /\ _drag_t_max = 1440
  /\ ed_event = NoCall
  /\ ed_ops = 0

Init ==
  /\ WorkerInit
  /\ GuiInit
  /\ ha_token \in Tokens
  /\ sim_mode \in BOOLEAN
  /\ CliIdle
  /\ HaIdle
  /\ MiredsIdle
  /\ LocIdle
  /\ TelIdle
  /\ EvalIdle
  /\ EditIdle

\* ---- SyncWorker.run -------------------------------------------------------
\* status_changed.emit(status): the slot runs later, in the window's thread
emit(w, status) ==
  /\ last_event' = [last_event EXCEPT ![w] = status]
  /\ last_status' = [last_status EXCEPT ![w] = status]
  /\ sigq' = IF status \in {"stopped", "error"} THEN Append(sigq, <<w, status>>) ELSE sigq

\* a light call begins: client.set_light(...) or client.reset_to_default()
issue(w, c) ==
  /\ last_event' = [last_event EXCEPT ![w] = c[1]]
  /\ UNCHANGED last_status
  /\ last_call' = [last_call EXCEPT ![w] = c]
  /\ called' = [called EXCEPT ![w] = TRUE]

\* run() has returned or raised: its locals are gone
leave(w) ==
  /\ game_was_running' = [game_was_running EXCEPT ![w] = FALSE]
  /\ elapsed' = [elapsed EXCEPT ![w] = 0]
  /\ game_time' = [game_time EXCEPT ![w] = None]
  /\ brightness' = [brightness EXCEPT ![w] = None]
  /\ color_temp' = [color_temp EXCEPT ![w] = None]
  /\ sim' = [sim EXCEPT ![w] = FALSE]

\* Load with the two early returns missing: "error" is emitted and run() goes on
LoadFallThrough(w) ==
  /\ Alive /\ pc[w] = "load"
  /\ IF ha_token = "" \/ ClientInit(ha_token) = "ValueError"
       THEN emit(w, "error")
       ELSE UNCHANGED <<last_event, last_status, sigq>>
  /\ sim' = [sim EXCEPT ![w] = sim_mode]
  /\ pc' = [pc EXCEPT ![w] = "configured"]
  /\ UNCHANGED <<_running, game_was_running, elapsed, game_time, brightness, color_temp>>
  /\ UNCHANGED <<worker, nworkers, start_enabled, stop_enabled, main_pc, ha_token, sim_mode>>
  /\ UNCHANGED <<last_call, last_update, last_outcome, poll_calls, time_source, cleanup_resets, called,
                 stop_requested>>
  /\ UNCHANGED <<clivars, libvars>>

\* the thread has finished: nothing of the worker is left to observe
forget(w) ==
  /\ last_event' = [last_event EXCEPT ![w] = NoEvent]
  /\ last_status' = [last_status EXCEPT ![w] = NoEvent]
  /\ last_call' = [last_call EXCEPT ![w] = NoCall]
  /\ last_update' = [last_update EXCEPT ![w] = NoCall]
  /\ last_outcome' = [last_outcome EXCEPT ![w] = NoEvent]
  /\ poll_calls' = [poll_calls EXCEPT ![w] = 0]
  /\ time_source' = [time_source EXCEPT ![w] = NoEvent]
  /\ cleanup_resets' = [cleanup_resets EXCEPT ![w] = 0]
  /\ called' = [called EXCEPT ![w] = FALSE]
  /\ stop_requested' = [stop_requested EXCEPT ![w] = FALSE]

\* lines 47-67: load the configuration, build the client
Load(w) ==
  /\ Alive /\ pc[w] = "load"
  /\ IF ha_token = "" \/ ClientInit(ha_token) = "ValueError"
       THEN /\ emit(w, "error")
            /\ pc' = [pc EXCEPT ![w] = "returned"]
            /\ UNCHANGED sim
       ELSE /\ sim' = [sim EXCEPT ![w] = sim_mode]
            /\ pc' = [pc EXCEPT ![w] = "configured"]
            /\ UNCHANGED <<last_event, last_status, sigq>>
  /\ UNCHANGED <<_running, game_was_running, elapsed, game_time, brightness, color_temp>>
  /\ UNCHANGED <<worker, nworkers, start_enabled, stop_enabled, main_pc, ha_token, sim_mode>>
  /\ UNCHANGED <<last_call, last_update, last_outcome, poll_calls, time_source, cleanup_resets, called,
                 stop_requested>>
  /\ UNCHANGED <<clivars, libvars>>

\* lines 77-85: set the running flag, emit "running"
SetRunning(w) ==
  /\ Alive /\ pc[w] = "configured"
  /\ _running' = [_running EXCEPT ![w] = TRUE]
  /\ game_was_running' = [game_was_running EXCEPT ![w] = FALSE]
  /\ emit(w, "running")
  /\ pc' = [pc EXCEPT ![w] = "loop"]
  /\ UNCHANGED <<elapsed, game_time, brightness, color_temp, sim>>
  /\ UNCHANGED <<worker, nworkers, start_enabled, stop_enabled, main_pc, ha_token, sim_mode>>
  /\ UNCHANGED <<last_call, last_update, last_outcome, poll_calls, time_source, cleanup_resets, called,
                 stop_requested>>
  /\ UNCHANGED <<clivars, libvars>>

\* LoopTest whose cleanup resets only when the game was connected
LoopTestResetIfConnected(w) ==
  /\ Alive /\ pc[w] = "loop"
  /\ IF _running[w]
       THEN /\ pc' = [pc EXCEPT ![w] = "poll"]
            /\ last_call' = [last_call EXCEPT ![w] = NoCall]
            /\ UNCHANGED <<last_event, last_status, called, cleanup_resets, sigq>>
       ELSE IF game_was_running[w]
         THEN /\ pc' = [pc EXCEPT ![w] = "cleanup_reset"]
              /\ issue(w, <<"reset">>)
              /\ cleanup_resets' = [cleanup_resets EXCEPT ![w] = @ + 1]
              /\ UNCHANGED sigq
         ELSE /\ pc' = [pc EXCEPT ![w] = "returned"]
              /\ emit(w, "stopped")
              /\ last_call' = [last_call EXCEPT ![w] = NoCall]
              /\ UNCHANGED <<called, cleanup_resets>>
  /\ poll_calls' = [poll_calls EXCEPT ![w] = 0]
  /\ time_source' = [time_source EXCEPT ![w] = NoEvent]
  /\ last_update' = [last_update EXCEPT ![w] = NoCall]
  /\ last_outcome' = [last_outcome EXCEPT ![w] = NoEvent]
  /\ UNCHANGED <<_running, game_was_running, elapsed, game_time, brightness, color_temp, sim>>
  /\ UNCHANGED <<worker, nworkers, start_enabled, stop_enabled, main_pc, ha_token, sim_mode>>
  /\ UNCHANGED stop_requested
  /\ UNCHANGED <<clivars, libvars>>

\* line 87: while self._running; lines 123-124 when the loop is left
LoopTest(w) ==
  /\ Alive /\ pc[w] = "loop"
  /\ IF _running[w]
       THEN /\ pc' = [pc EXCEPT ![w] = "poll"]
            /\ last_call' = [last_call EXCEPT ![w] = NoCall]
            /\ UNCHANGED <<last_event, last_status, called, cleanup_resets>>
       ELSE /\ pc' = [pc EXCEPT ![w] = "cleanup_reset"]
            /\ issue(w, <<"reset">>)
            /\ cleanup_resets' = [cleanup_resets EXCEPT ![w] = @ + 1]
  /\ poll_calls' = [poll_calls EXCEPT ![w] = 0]
  /\ time_source' = [time_source EXCEPT ![w] = NoEvent]
  /\ last_update' = [last_update EXCEPT ![w] = NoCall]
  /\ last_outcome' = [last_outcome EXCEPT ![w] = NoEvent]
  /\ UNCHANGED <<_running, game_was_running, elapsed, game_time, brightness, color_temp, sim>>
  /\ UNCHANGED gvars
  /\ UNCHANGED stop_requested
  /\ UNCHANGED <<clivars, libvars>>

\* Poll that reads the shared memory in simulated-time mode as well
PollAlwaysTelemetry(w) ==
  /\ Alive /\ pc[w] = "poll"
  /\ \E o \in TelemetryOutcomes, ta \in TimeAbsSamples :
       game_time' = [game_time EXCEPT ![w] = get_game_time(o, ta)]
  /\ time_source' = [time_source EXCEPT ![w] = "telemetry"]
  /\ pc' = [pc EXCEPT ![w] = "branch"]
  /\ UNCHANGED <<_running, game_was_running, elapsed, brightness, color_temp, sim>>
  /\ UNCHANGED gvars
  /\ UNCHANGED <<last_event, last_status, last_call, last_update, last_outcome, poll_calls,
                 cleanup_resets, called, stop_requested>>
  /\ UNCHANGED <<clivars, libvars>>

\* lines 88-91: read the game time
Poll(w) ==
  /\ Alive /\ pc[w] = "poll"
  /\ IF sim[w]
       THEN /\ \E ticks \in SimTicks :
                 game_time' = [game_time EXCEPT ![w] = sim_time(360, ticks)]
            /\ time_source' = [time_source EXCEPT ![w] = "sim"]
       ELSE /\ \E o \in TelemetryOutcomes, ta \in TimeAbsSamples :
                 game_time' = [game_time EXCEPT ![w] = get_game_time(o, ta)]
            /\ time_source' = [time_source EXCEPT ![w] = "telemetry"]
  /\ pc' = [pc EXCEPT ![w] = "branch"]
  /\ UNCHANGED <<_running, game_was_running, elapsed, brightness, color_temp, sim>>
  /\ UNCHANGED gvars
  /\ UNCHANGED <<last_event, last_status, last_call, last_update, last_outcome, poll_calls,
                 cleanup_resets, called, stop_requested>>
  /\ UNCHANGED <<clivars, libvars>>

\* BranchNone without the game_was_running test: every empty poll resets
BranchNoneAlways(w) ==
  /\ Alive /\ pc[w] = "branch" /\ game_time[w] = None
  /\ pc' = [pc EXCEPT ![w] = "disc_reset"]
  /\ issue(w, <<"reset">>)
  /\ poll_calls' = [poll_calls EXCEPT ![w] = @ + 1]
  /\ UNCHANGED time_source
  /\ UNCHANGED <<_running, game_was_running, elapsed, game_time, brightness, color_temp, sim>>
  /\ UNCHANGED gvars
  /\ UNCHANGED <<last_update, last_outcome, cleanup_resets, stop_requested>>
  /\ UNCHANGED <<clivars, libvars>>

\* lines 93-98: no game time; a disconnect issues reset_to_default()
BranchNone(w) ==
  /\ Alive /\ pc[w] = "branch" /\ game_time[w] = None
  /\ IF game_was_running[w]
       THEN /\ pc' = [pc EXCEPT ![w] = "disc_reset"]
            /\ issue(w, <<"reset">>)
            /\ poll_calls' = [poll_calls EXCEPT ![w] = @ + 1]
            /\ UNCHANGED time_source
            /\ UNCHANGED elapsed
       ELSE /\ pc' = [pc EXCEPT ![w] = "sleep"]
            /\ elapsed' = [elapsed EXCEPT ![w] = 0]
            /\ UNCHANGED <<last_event, last_status, last_call, called, poll_calls, time_source>>
  /\ UNCHANGED <<_running, game_was_running, game_time, brightness, color_temp, sim>>
  /\ UNCHANGED gvars
  /\ UNCHANGED <<last_update, last_outcome, cleanup_resets, stop_requested>>
  /\ UNCHANGED <<clivars, libvars>>

\* lines 96-98: reset_to_default() returns; emit "waiting"
DiscResetReturn(w) ==
  /\ Alive /\ pc[w] = "disc_reset"
  /\ \E o \in HttpOutcomes :
       /\ last_outcome' = [last_outcome EXCEPT ![w] = o]
       /\ IF call(o) = "raised"
            THEN /\ pc' = [pc EXCEPT ![w] = "died"]
                 /\ leave(w)
                 /\ UNCHANGED <<last_event, last_status, sigq>>
            ELSE /\ game_was_running' = [game_was_running EXCEPT ![w] = FALSE]
                 /\ emit(w, "waiting")
                 /\ pc' = [pc EXCEPT ![w] = "sleep"]
                 /\ elapsed' = [elapsed EXCEPT ![w] = 0]
                 /\ UNCHANGED <<game_time, brightness, color_temp, sim>>
  /\ UNCHANGED _running
  /\ UNCHANGED <<worker, nworkers, start_enabled, stop_enabled, main_pc, ha_token, sim_mode>>
  /\ UNCHANGED <<last_call, last_update, poll_calls, time_source, cleanup_resets, called, stop_requested>>
  /\ UNCHANGED <<clivars, libvars>>

\* BranchTime that emits "connected" on every poll that yields a game time
BranchTimeAlwaysEmits(w) ==
  /\ Alive /\ pc[w] = "branch" /\ game_time[w] # None
  /\ game_was_running' = [game_was_running EXCEPT ![w] = TRUE]
  /\ emit(w, "connected")
  /\ pc' = [pc EXCEPT ![w] = "calc"]
  /\ UNCHANGED <<_running, elapsed, game_time, brightness, color_temp, sim>>
  /\ UNCHANGED <<worker, nworkers, start_enabled, stop_enabled, main_pc, ha_token, sim_mode>>
  /\ UNCHANGED <<last_call, last_update, last_outcome, poll_calls, time_source, cleanup_resets, called,
                 stop_requested>>
  /\ UNCHANGED <<clivars, libvars>>

\* lines 100-103: a game time; a fresh connect emits "connected"
BranchTime(w) ==
  /\ Alive /\ pc[w] = "branch" /\ game_time[w] # None
  /\ IF ~game_was_running[w]
       THEN /\ game_was_running' = [game_was_running EXCEPT ![w] = TRUE]
            /\ emit(w, "connected")
       ELSE UNCHANGED <<game_was_running, last_event, last_status, sigq>>
  /\ pc' = [pc EXCEPT ![w] = "calc"]
  /\ UNCHANGED <<_running, elapsed, game_time, brightness, color_temp, sim>>
  /\ UNCHANGED <<worker, nworkers, start_enabled, stop_enabled, main_pc, ha_token, sim_mode>>
  /\ UNCHANGED <<last_call, last_update, last_outcome, poll_calls, time_source, cleanup_resets, called,
                 stop_requested>>
  /\ UNCHANGED <<clivars, libvars>>

\* Apply that skips set_light() when the pair equals that of the poll before
ApplyOnChange(w) ==
  /\ Alive /\ pc[w] = "calc"
  /\ LET bk == calculate_light(game_time[w])
     IN  /\ brightness' = [brightness EXCEPT ![w] = bk[1]]
         /\ color_temp' = [color_temp EXCEPT ![w] = bk[2]]
         /\ IF bk[1] # brightness[w] \/ bk[2] # color_temp[w]
              THEN /\ issue(w, <<"set_light", bk[1], bk[2]>>)
                   /\ poll_calls' = [poll_calls EXCEPT ![w] = @ + 1]
                   /\ UNCHANGED time_source
                   /\ pc' = [pc EXCEPT ![w] = "set_light"]
                   /\ UNCHANGED elapsed
              ELSE /\ pc' = [pc EXCEPT ![w] = "sleep"]
                   /\ elapsed' = [elapsed EXCEPT ![w] = 0]
                   /\ UNCHANGED <<last_event, last_status, last_call, called, poll_calls, time_source>>
  /\ UNCHANGED <<_running, game_was_running, game_time, sim>>
  /\ UNCHANGED gvars
  /\ UNCHANGED <<last_update, last_outcome, cleanup_resets, stop_requested>>
  /\ UNCHANGED <<clivars, libvars>>

\* lines 105-113: calculate_light(game_time), client.set_light(...)
Apply(w) ==
  /\ Alive /\ pc[w] = "calc"
  /\ LET bk == calculate_light(game_time[w])
     IN  /\ brightness' = [brightness EXCEPT ![w] = bk[1]]
         /\ color_temp' = [color_temp EXCEPT ![w] = bk[2]]
         /\ issue(w, <<"set_light", bk[1], bk[2]>>)
  /\ poll_calls' = [poll_calls EXCEPT ![w] = @ + 1]
  /\ UNCHANGED time_source
  /\ pc' = [pc EXCEPT ![w] = "set_light"]
  /\ UNCHANGED <<_running, game_was_running, elapsed, game_time, sim>>
  /\ UNCHANGED gvars
  /\ UNCHANGED <<last_update, last_outcome, cleanup_resets, stop_requested>>
  /\ UNCHANGED <<clivars, libvars>>

\* lines 113-117: set_light() returns; emit light_updated
SetLightReturn(w) ==
  /\ Alive /\ pc[w] = "set_light"
  /\ \E o \in HttpOutcomes :
       /\ last_outcome' = [last_outcome EXCEPT ![w] = o]
       /\ IF call(o) = "raised"
            THEN /\ pc' = [pc EXCEPT ![w] = "died"]
                 /\ leave(w)
                 /\ UNCHANGED <<last_event, last_status, last_update>>
            ELSE /\ last_event' = [last_event EXCEPT ![w] = "light_updated"]
                 /\ UNCHANGED last_status
                 /\ last_update' = [last_update EXCEPT ![w] =
                                      <<game_time[w], brightness[w], color_temp[w]>>]
                 /\ pc' = [pc EXCEPT ![w] = "sleep"]
                 /\ elapsed' = [elapsed EXCEPT ![w] = 0]
                 /\ UNCHANGED <<game_was_running, game_time, brightness, color_temp, sim>>
  /\ UNCHANGED _running
  /\ UNCHANGED gvars
  /\ UNCHANGED <<last_call, poll_calls, time_source, cleanup_resets, called, stop_requested>>
  /\ UNCHANGED <<clivars, libvars>>

\* SleepTest that looks at the elapsed time only, not at the running flag
SleepTestIgnoresFlag(w) ==
  /\ Alive /\ pc[w] = "sleep"
  /\ pc' = [pc EXCEPT ![w] = IF elapsed[w] < PollSlices THEN "slice" ELSE "loop"]
  /\ UNCHANGED <<_running, game_was_running, elapsed, game_time, brightness, color_temp, sim>>
  /\ UNCHANGED gvars
  /\ UNCHANGED ovars
  /\ UNCHANGED <<clivars, libvars>>

\* line 118: while self._running and elapsed < poll_interval
SleepTest(w) ==
  /\ Alive /\ pc[w] = "sleep"
  /\ pc' = [pc EXCEPT ![w] = IF _running[w] /\ elapsed[w] < PollSlices
                               THEN "slice" ELSE "loop"]
  /\ UNCHANGED <<_running, game_was_running, elapsed, game_time, brightness, color_temp, sim>>
  /\ UNCHANGED gvars
  /\ UNCHANGED ovars
  /\ UNCHANGED <<clivars, libvars>>

\* lines 119-120: time.sleep(0.5); elapsed += 0.5
SliceDone(w) ==
  /\ Alive /\ pc[w] = "slice"
  /\ elapsed' = [elapsed EXCEPT ![w] = @ + 1]
  /\ pc' = [pc EXCEPT ![w] = "sleep"]
  /\ UNCHANGED <<_running, game_was_running, game_time, brightness, color_temp, sim>>
  /\ UNCHANGED gvars
  /\ UNCHANGED ovars
  /\ UNCHANGED <<clivars, libvars>>

\* the cleanup reset attempted a second time when the first attempt failed
CleanupResetRetry(w) ==
  /\ Alive /\ pc[w] = "cleanup_reset"
  /\ \E o \in HttpOutcomes :
       /\ last_outcome' = [last_outcome EXCEPT ![w] = o]
       /\ IF o # "ok" /\ cleanup_resets[w] < 2
            THEN /\ cleanup_resets' = [cleanup_resets EXCEPT ![w] = @ + 1]
                 /\ UNCHANGED <<pc, last_event, last_status, sigq>>
            ELSE /\ emit(w, "stopped")
                 /\ pc' = [pc EXCEPT ![w] = "returned"]
                 /\ UNCHANGED cleanup_resets
  /\ UNCHANGED <<game_was_running, elapsed, game_time, brightness, color_temp, sim>>
  /\ UNCHANGED _running
  /\ UNCHANGED <<worker, nworkers, start_enabled, stop_enabled, main_pc, ha_token, sim_mode>>
  /\ UNCHANGED <<last_call, last_update, poll_calls, time_source, called, stop_requested>>
  /\ UNCHANGED <<clivars, libvars>>

\* lines 124-126: the cleanup reset returns; emit "stopped"
CleanupResetReturn(w) ==
  /\ Alive /\ pc[w] = "cleanup_reset"
  /\ \E o \in HttpOutcomes :
       /\ last_outcome' = [last_outcome EXCEPT ![w] = o]
       /\ IF call(o) = "raised"
            THEN /\ pc' = [pc EXCEPT ![w] = "died"]
                 /\ UNCHANGED <<last_event, last_status, sigq>>
                 /\ leave(w)
            ELSE /\ emit(w, "stopped")
                 /\ pc' = [pc EXCEPT ![w] = "returned"]
                 /\ UNCHANGED <<game_was_running, elapsed, game_time, brightness,
                                color_temp, sim>>
  /\ UNCHANGED _running
  /\ UNCHANGED <<worker, nworkers, start_enabled, stop_enabled, main_pc, ha_token, sim_mode>>
  /\ UNCHANGED <<last_call, last_update, poll_calls, time_source, cleanup_resets, called, stop_requested>>
  /\ UNCHANGED <<clivars, libvars>>

\* run() has returned: QThread emits finished, isRunning() becomes false
Finish(w) ==
  /\ Alive /\ pc[w] = "returned"
  /\ pc' = [pc EXCEPT ![w] = "finished"]
  /\ sigq' = Append(sigq, <<w, "finished">>)
  /\ leave(w)
  /\ forget(w)
  /\ UNCHANGED _running
  /\ UNCHANGED <<worker, nworkers, start_enabled, stop_enabled, main_pc, ha_token, sim_mode>>
  /\ UNCHANGED <<clivars, libvars>>

WorkerStep(w) ==
  \/ Load(w) \/ SetRunning(w) \/ LoopTest(w) \/ Poll(w) \/ BranchNone(w)
  \/ DiscResetReturn(w) \/ BranchTime(w) \/ Apply(w) \/ SetLightReturn(w)
  \/ SleepTest(w) \/ SliceDone(w) \/ CleanupResetReturn(w) \/ Finish(w)

\* ---- MainWindow, TrayIcon, main_gui ---------------------------------------
\* SyncWorker.stop()
stop(w) ==
  /\ _running' = [_running EXCEPT ![w] = FALSE]
  /\ stop_requested' = [stop_requested EXCEPT ![w] = @ \/ isRunning(w)]

\* start_sync() without the isRunning() guard of line 109
start_syncUnguarded ==
  /\ nworkers < MaxWorkers
  /\ worker' = nworkers + 1
  /\ nworkers' = nworkers + 1
  /\ pc' = [pc EXCEPT ![nworkers + 1] = "load"]
  /\ start_enabled' = FALSE
  /\ stop_enabled' = TRUE

\* MainWindow.start_sync()
start_sync ==
  IF worker # 0 /\ isRunning(worker)
    THEN UNCHANGED <<worker, nworkers, pc, start_enabled, stop_enabled>>
    ELSE /\ nworkers < MaxWorkers
         /\ worker' = nworkers + 1
         /\ nworkers' = nworkers + 1
         /\ pc' = [pc EXCEPT ![nworkers + 1] = "load"]
         /\ start_enabled' = FALSE
         /\ stop_enabled' = TRUE

\* MainWindow.stop_sync()
stop_sync ==
  IF worker # 0 THEN stop(worker) ELSE UNCHANGED <<_running, stop_requested>>

\* MainWindow._on_worker_finished()
_on_worker_finished ==
  /\ start_enabled' = TRUE
  /\ stop_enabled' = FALSE

\* MainWindow._on_status_changed(status)
_on_status_changed(status) ==
  IF status \in {"stopped", "error"}
    THEN _on_worker_finished
    ELSE UNCHANGED <<start_enabled, stop_enabled>>

\* the Start button or the tray's Start action is triggered
ClickStart ==
  /\ main_pc = "gui" /\ start_enabled
  /\ start_sync
  /\ UNCHANGED <<_running, game_was_running, elapsed, game_time, brightness, color_temp, sim>>
  /\ UNCHANGED <<sigq, main_pc, ha_token, sim_mode>>
  /\ UNCHANGED ovars
  /\ UNCHANGED <<clivars, libvars>>

\* the Stop button or the tray's Stop action is triggered
ClickStop ==
  /\ main_pc = "gui" /\ stop_enabled
  /\ stop_sync
  /\ UNCHANGED <<pc, game_was_running, elapsed, game_time, brightness, color_temp, sim>>
  /\ UNCHANGED gvars
  /\ UNCHANGED <<last_event, last_status, last_call, last_update, last_outcome, poll_calls, time_source,
                 cleanup_resets, called>>
  /\ UNCHANGED <<clivars, libvars>>

\* MainWindow._open_settings(), dialog accepted: the settings are saved and a
\* running worker is stopped; the window then blocks in wait()
_open_settings ==
  /\ main_pc = "gui"
  /\ \E tok \in Tokens, sm \in BOOLEAN :
       /\ ha_token' = tok
       /\ sim_mode' = sm
  /\ IF worker # 0 /\ isRunning(worker)
       THEN /\ nworkers < MaxWorkers
            /\ stop(worker)
            /\ main_pc' = "wait"
       ELSE UNCHANGED <<_running, stop_requested, main_pc>>
  /\ UNCHANGED <<pc, game_was_running, elapsed, game_time, brightness, color_temp, sim>>
  /\ UNCHANGED <<worker, nworkers, start_enabled, stop_enabled, sigq>>
  /\ UNCHANGED <<last_event, last_status, last_call, last_update, last_outcome, poll_calls, time_source,
                 cleanup_resets, called>>
  /\ UNCHANGED <<clivars, libvars>>

\* MainWindow._open_settings(): wait() returns, start_sync()
WaitReturn ==
  /\ main_pc = "wait"
  /\ ~isRunning(worker)
  /\ start_sync
  /\ main_pc' = "gui"
  /\ UNCHANGED <<_running, game_was_running, elapsed, game_time, brightness, color_temp, sim>>
  /\ UNCHANGED <<sigq, ha_token, sim_mode>>
  /\ UNCHANGED ovars
  /\ UNCHANGED <<clivars, libvars>>

\* the event loop delivers the next queued signal to its slot
Deliver ==
  /\ main_pc = "gui"
  /\ sigq # <<>>
  /\ IF Head(sigq)[2] = "finished"
       THEN _on_worker_finished
       ELSE _on_status_changed(Head(sigq)[2])
  /\ sigq' = Tail(sigq)
  /\ UNCHANGED wvars
  /\ UNCHANGED <<worker, nworkers, main_pc, ha_token, sim_mode>>
  /\ UNCHANGED ovars
  /\ UNCHANGED <<clivars, libvars>>

\* TrayIcon._quit(): stop_sync(), QApplication.quit()
_quit ==
  /\ main_pc = "gui"
  /\ stop_sync
  /\ main_pc' = "atexit"
  /\ UNCHANGED <<pc, game_was_running, elapsed, game_time, brightness, color_temp, sim>>
  /\ UNCHANGED <<worker, nworkers, start_enabled, stop_enabled, sigq, ha_token, sim_mode>>
  /\ UNCHANGED <<last_event, last_status, last_call, last_update, last_outcome, poll_calls, time_source,
                 cleanup_resets, called>>
  /\ UNCHANGED <<clivars, libvars>>

\* main_gui.main(): SIGINT or SIGTERM calls app.quit()
SignalQuit ==
  /\ main_pc = "gui"
  /\ main_pc' = "atexit"
  /\ UNCHANGED wvars
  /\ UNCHANGED <<worker, nworkers, start_enabled, stop_enabled, sigq, ha_token, sim_mode>>
  /\ UNCHANGED ovars
  /\ UNCHANGED <<clivars, libvars>>

\* main_gui._reset_light_on_exit(): load the settings, issue reset_to_default()
_reset_light_on_exit ==
  /\ main_pc = "atexit"
  /\ main_pc' = IF ha_token = "" \/ ClientInit(ha_token) = "ValueError"
                  THEN "exited" ELSE "exit_reset"
  /\ UNCHANGED wvars
  /\ UNCHANGED <<worker, nworkers, start_enabled, stop_enabled, sigq, ha_token, sim_mode>>
  /\ UNCHANGED ovars
  /\ UNCHANGED <<clivars, libvars>>

\* the exit-time reset returns (any failure is swallowed); the process ends
ExitResetReturn ==
  /\ main_pc = "exit_reset"
  /\ main_pc' = "exited"
  /\ UNCHANGED wvars
  /\ UNCHANGED <<worker, nworkers, start_enabled, stop_enabled, sigq, ha_token, sim_mode>>
  /\ UNCHANGED ovars
  /\ UNCHANGED <<clivars, libvars>>

GuiStep ==
  \/ ClickStart \/ ClickStop \/ _open_settings \/ WaitReturn \/ Deliver
  \/ _quit \/ SignalQuit \/ _reset_light_on_exit \/ ExitResetReturn

Next == (\E w \in Workers : WorkerStep(w)) \/ GuiStep

Spec == Init /\ [][Next]_vars

\* ---- main.py: the command-line loop ---------------------------------------
guifrozen == <<wvars, gvars, ovars, libvars>>

\* main(), line 83: HomeAssistantClient() with the token of the environment
CliStart ==
  /\ cli_pc = "unstarted"
  /\ \E tok \in Tokens, sm \in BOOLEAN :
       /\ cli_sim' = sm
       /\ cli_pc' = IF ClientInit(tok) = "ValueError" THEN "died" ELSE "loop"
  /\ UNCHANGED <<cli_running, cli_game_was_running, cli_game_time, last_brightness,
                 last_color_temp, cli_failed, cli_issued>>
  /\ UNCHANGED guifrozen

\* _shutdown(): SIGINT or SIGTERM
_shutdown ==
  /\ cli_pc \notin {"done", "died"}
  /\ cli_running
  /\ cli_running' = FALSE
  /\ UNCHANGED <<cli_pc, cli_sim, cli_game_was_running, cli_game_time, last_brightness,
                 last_color_temp, cli_failed, cli_issued>>
  /\ UNCHANGED guifrozen

\* line 90: while _running; lines 127-128 when the loop is left
CliLoopTest ==
  /\ cli_pc = "loop"
  /\ IF cli_running
       THEN /\ cli_pc' = "poll"
            /\ cli_issued' = NoCall
       ELSE /\ cli_pc' = "cleanup_reset"
            /\ cli_issued' = <<"reset">>
  /\ UNCHANGED <<cli_sim, cli_running, cli_game_was_running, cli_game_time, last_brightness,
                 last_color_temp, cli_failed>>
  /\ UNCHANGED guifrozen

\* lines 92-95: read the game time
CliPoll ==
  /\ cli_pc = "poll"
  /\ IF cli_sim
       THEN \E ticks \in SimTicks : cli_game_time' = sim_time(360, ticks)
       ELSE \E o \in TelemetryOutcomes, ta \in TimeAbsSamples :
              cli_game_time' = get_game_time(o, ta)
  /\ cli_pc' = "branch"
  /\ UNCHANGED <<cli_sim, cli_running, cli_game_was_running, last_brightness,
                 last_color_temp, cli_failed, cli_issued>>
  /\ UNCHANGED guifrozen

\* CliBranchNone without the game_was_running test: every empty poll resets
CliBranchNoneAlways ==
  /\ cli_pc = "branch" /\ cli_game_time = None
  /\ cli_pc' = "disc_reset"
  /\ cli_issued' = <<"reset">>
  /\ UNCHANGED <<cli_sim, cli_running, cli_game_was_running, cli_game_time, last_brightness,
                 last_color_temp, cli_failed>>
  /\ UNCHANGED guifrozen

\* lines 98-106: no game time; a disconnect issues reset_to_default()
CliBranchNone ==
  /\ cli_pc = "branch" /\ cli_game_time = None
  /\ IF cli_game_was_running
       THEN /\ cli_pc' = "disc_reset"
            /\ cli_issued' = <<"reset">>
       ELSE /\ cli_pc' = "sleep"
            /\ UNCHANGED cli_issued
  /\ UNCHANGED <<cli_sim, cli_running, cli_game_was_running, cli_game_time, last_brightness,
                 last_color_temp, cli_failed>>
  /\ UNCHANGED guifrozen

\* the disconnect branch without lines 102-103: the last-applied pair is kept
CliDiscResetKeepsLast ==
  /\ cli_pc = "disc_reset"
  /\ \E o \in HttpOutcomes :
       cli_pc' = IF call(o) = "raised" THEN "died" ELSE "sleep"
  /\ cli_game_was_running' = FALSE
  /\ cli_failed' = FALSE
  /\ UNCHANGED <<cli_sim, cli_running, cli_game_time, cli_issued, last_brightness,
                 last_color_temp>>
  /\ UNCHANGED guifrozen

\* lines 101-104: reset_to_default() returns; the last-applied pair is cleared
CliDiscResetReturn ==
  /\ cli_pc = "disc_reset"
  /\ \E o \in HttpOutcomes :
       cli_pc' = IF call(o) = "raised" THEN "died" ELSE "sleep"
  /\ last_brightness' = None
  /\ last_color_temp' = None
  /\ cli_game_was_running' = FALSE
  /\ cli_failed' = FALSE
  /\ UNCHANGED <<cli_sim, cli_running, cli_game_time, cli_issued>>
  /\ UNCHANGED guifrozen

\* lines 108-120: a game time; set_light() only when the pair differs from the
\* last-applied pair
CliBranchTime ==
  /\ cli_pc = "branch" /\ cli_game_time # None
  /\ cli_game_was_running' = TRUE
  /\ LET bk == calculate_light(cli_game_time)
     IN  IF bk[1] # last_brightness \/ bk[2] # last_color_temp
           THEN /\ cli_pc' = "set_light"
                /\ cli_issued' = <<"set_light", bk[1], bk[2]>>
           ELSE /\ cli_pc' = "sleep"
                /\ UNCHANGED cli_issued
  /\ UNCHANGED <<cli_sim, cli_running, cli_game_time, last_brightness, last_color_temp,
                 cli_failed>>
  /\ UNCHANGED guifrozen

\* lines 120-122: set_light() returns; the pair is recorded as applied
CliSetLightReturn ==
  /\ cli_pc = "set_light"
  /\ \E o \in HttpOutcomes :
       /\ cli_pc' = IF call(o) = "raised" THEN "died" ELSE "sleep"
       /\ cli_failed' = (o # "ok")
  /\ last_brightness' = calculate_light(cli_game_time)[1]
  /\ last_color_temp' = calculate_light(cli_game_time)[2]
  /\ UNCHANGED <<cli_sim, cli_running, cli_game_was_running, cli_game_time, cli_issued>>
  /\ UNCHANGED guifrozen

\* lines 105, 124: time.sleep(POLL_INTERVAL)
CliSleep ==
  /\ cli_pc = "sleep"
  /\ cli_pc' = "loop"
  /\ UNCHANGED <<cli_sim, cli_running, cli_game_was_running, cli_game_time, last_brightness,
                 last_color_temp, cli_failed, cli_issued>>
  /\ UNCHANGED guifrozen

\* lines 128-129: the cleanup reset returns; main() returns
CliCleanupReturn ==
  /\ cli_pc = "cleanup_reset"
  /\ \E o \in HttpOutcomes :
       cli_pc' = IF call(o) = "raised" THEN "died" ELSE "done"
  /\ UNCHANGED <<cli_sim, cli_running, cli_game_was_running, cli_game_time, last_brightness,
                 last_color_temp, cli_failed, cli_issued>>
  /\ UNCHANGED guifrozen

CliInit ==
  /\ WorkerInit
  /\ GuiInit
  /\ ha_token = ""
  /\ sim_mode = FALSE
  /\ CliIdle
  /\ HaIdle
  /\ MiredsIdle
  /\ LocIdle
  /\ TelIdle
  /\ EvalIdle
  /\ EditIdle

CliNext ==
  \/ CliStart \/ _shutdown \/ CliLoopTest \/ CliPoll \/ CliBranchNone
  \/ CliDiscResetReturn \/ CliBranchTime \/ CliSetLightReturn \/ CliSleep
  \/ CliCleanupReturn

CliSpec == CliInit /\ [][CliNext]_vars

\* ---- the two entry points -----------------------------------------------------
\* one process runs main_gui.py, with the window and its workers, or main.py,
\* with the command-line loop
GuiProcess == cli_pc = "unstarted" /\ cli_running /\ Next
CliProcess == nworkers = 0 /\ main_pc = "gui" /\ CliNext

LoopsNext == GuiProcess \/ CliProcess

LoopsSpec == Init /\ [][LoopsNext]_vars

\* ---- one poll that found a game time, at any minute of the day ------------------
\* worker 1, started by the window, has just read game time t in its poll loop;
\* connected tells whether the poll before found a game time as well
WorkerAtBranch(t, connected) ==
  /\ pc = [w \in Workers |-> IF w = 1 THEN "branch" ELSE "unstarted"]
  /\ _running = [w \in Workers |-> w = 1]
  /\ game_was_running = [w \in Workers |-> w = 1 /\ connected]
  /\ elapsed = [w \in Workers |-> 0]
  /\ game_time = [w \in Workers |-> IF w = 1 THEN t ELSE None]
  /\ brightness = [w \in Workers |-> None]
  /\ color_temp = [w \in Workers |-> None]
  /\ sim = [w \in Workers |-> FALSE]
  /\ last_event = [w \in Workers |-> IF w = 1 THEN "running" ELSE NoEvent]
  /\ last_status = [w \in Workers |-> IF w = 1 THEN "running" ELSE NoEvent]
  /\ last_call = [w \in Workers |-> NoCall]
  /\ last_update = [w \in Workers |-> NoCall]
  /\ last_outcome = [w \in Workers |-> NoEvent]
  /\ poll_calls = [w \in Workers |-> 0]
  /\ time_source = [w \in Workers |-> IF w = 1 THEN "telemetry" ELSE NoEvent]
  /\ cleanup_resets = [w \in Workers |-> 0]
  /\ called = [w \in Workers |-> FALSE]
  /\ stop_requested = [w \in Workers |-> FALSE]
  /\ worker = 1
  /\ nworkers = 1
  /\ start_enabled = FALSE
  /\ stop_enabled = TRUE
  /\ sigq = <<>>
  /\ main_pc = "gui"

\* the command-line loop has just read game time t
CliAtBranch(t, connected) ==
  /\ cli_pc = "branch"
  /\ cli_sim = FALSE
  /\ cli_running = TRUE
  /\ cli_game_was_running = connected
  /\ cli_game_time = t
  /\ last_brightness = None
  /\ last_color_temp = None
  /\ cli_failed = FALSE
  /\ cli_issued = NoCall

ApplyInit ==
  /\ \E t \in 0..1439 :
       \/ WorkerAtBranch(t, FALSE) /\ CliIdle
       \/ WorkerInit /\ GuiInit /\ CliAtBranch(t, FALSE)
  /\ ha_token = "tok"
  /\ sim_mode = FALSE
  /\ HaIdle
  /\ MiredsIdle
  /\ LocIdle
  /\ TelIdle
  /\ EvalIdle
  /\ EditIdle

\* the rest of the poll: the apply, its return, the test of the wait
ApplyNext ==
  \/ BranchTime(1) \/ Apply(1) \/ SetLightReturn(1) \/ SleepTest(1)
  \/ CliBranchTime \/ CliSetLightReturn \/ CliSleep

ApplySpec == ApplyInit /\ [][ApplyNext]_vars

\* ---- ha_client.py: the requests of one client ------------------------------
entity_id == "light.luz"
BrightnessSamples == {0, 1, 13, 134, 255}
KelvinSamples == {1000, 2200, 2700, 3200, 3850, 4000, 5500, 10000}
DefaultBrightnessSamples == {0, 255}
DefaultKelvinSamples == {2700, 4000}
TransitionSamples == {0, 1}
PostOutcomes == {"ok", "neterr", "timeout", "httperr"}
\* settings_dialog.py, line 60: the range of the colour temperature
MinKelvin == 1000
MaxKelvin == 10000

\* _kelvin_to_mireds() by floor division
kelvinToMiredsFloor(k) == 1000000 \div k

\* _kelvin_to_mireds(kelvin): round(1_000_000 / kelvin), ties to the even integer
_kelvin_to_mireds(k) == RoundEven(1000000, k)

\* set_light() that sends "turn_on" whatever the brightness
set_lightAlwaysOn(b, color_temp_kelvin) ==
  [service |-> "turn_on",
   payload |-> [entity_id |-> entity_id, brightness |-> b,
                color_temp |-> _kelvin_to_mireds(color_temp_kelvin),
                transition |-> transition]]

\* HomeAssistantClient.set_light(brightness, color_temp_kelvin): the request sent
set_light(b, color_temp_kelvin) ==
  IF b = 0
    THEN [service |-> "turn_off",
          payload |-> [entity_id |-> entity_id, transition |-> transition]]
    ELSE [service |-> "turn_on",
          payload |-> [entity_id |-> entity_id, brightness |-> b,
                       color_temp |-> _kelvin_to_mireds(color_temp_kelvin),
                       transition |-> transition]]

\* HomeAssistantClient.reset_to_default(): the request sent
reset_to_default ==
  [service |-> "turn_on",
   payload |-> [entity_id |-> entity_id, brightness |-> default_brightness,
                color_temp |-> _kelvin_to_mireds(default_color_temp_k),
                transition |-> 2]]

hafrozen == <<wvars, gvars, ovars, clivars, mivars, locvars, telvars, evvars, edvars>>

\* client.set_light(b, k): _call() posts the request
HaSetLight ==
  /\ ha_pc = "idle"
  /\ \E b \in BrightnessSamples, k \in KelvinSamples :
       /\ ha_op' = <<"set_light", b, k>>
       /\ ha_request' = set_light(b, k)
  /\ ha_posts' = 1
  /\ ha_pc' = "posting"
  /\ UNCHANGED <<default_brightness, default_color_temp_k, transition, ha_outcome>>
  /\ UNCHANGED hafrozen

\* client.reset_to_default(): _call() posts the request
HaResetToDefault ==
  /\ ha_pc = "idle"
  /\ ha_op' = <<"reset">>
  /\ ha_request' = reset_to_default
  /\ ha_posts' = 1
  /\ ha_pc' = "posting"
  /\ UNCHANGED <<default_brightness, default_color_temp_k, transition, ha_outcome>>
  /\ UNCHANGED hafrozen

\* _call() that posts once more when the POST failed
HaCallRetry ==
  /\ ha_pc = "posting"
  /\ \E o \in PostOutcomes :
       /\ ha_outcome' = o
       /\ IF o # "ok" /\ ha_posts < 2
            THEN /\ ha_posts' = ha_posts + 1
                 /\ UNCHANGED ha_pc
            ELSE /\ ha_pc' = "idle"
                 /\ UNCHANGED ha_posts
  /\ UNCHANGED <<default_brightness, default_color_temp_k, transition, ha_op, ha_request>>
  /\ UNCHANGED hafrozen

\* _call(), lines 78-83: the POST ends; a RequestException is logged and
\* swallowed, and the public call returns
HaCallReturn ==
  /\ ha_pc = "posting"
  /\ \E o \in PostOutcomes :
       /\ ha_outcome' = o
       /\ ha_pc' = IF call(o) = "raised" THEN "raised" ELSE "idle"
  /\ UNCHANGED <<default_brightness, default_color_temp_k, transition, ha_op, ha_request,
                 ha_posts>>
  /\ UNCHANGED hafrozen

\* HomeAssistantClient.__init__ with a token and the settings' values
HaInit ==
  /\ WorkerInit
  /\ GuiInit
  /\ ha_token = "tok"
  /\ sim_mode = FALSE
  /\ CliIdle
  /\ MiredsIdle
  /\ LocIdle
  /\ TelIdle
  /\ EvalIdle
  /\ EditIdle
  /\ default_brightness \in DefaultBrightnessSamples
  /\ default_color_temp_k \in DefaultKelvinSamples
  /\ transition \in TransitionSamples
  /\ ha_pc = "idle"
  /\ ha_op = NoCall
  /\ ha_request = NoRequest
  /\ ha_posts = 0
  /\ ha_outcome = NoEvent

HaNext == HaSetLight \/ HaResetToDefault \/ HaCallReturn

HaSpec == HaInit /\ [][HaNext]_vars

\* ---- ha_client._kelvin_to_mireds over the settings' range -------------------
Convert ==
  /\ mireds = None
  /\ mireds' = _kelvin_to_mireds(kelvin)
  /\ UNCHANGED kelvin
  /\ UNCHANGED <<wvars, gvars, ovars, clivars, havars, locvars, telvars, evvars, edvars>>

MiredsInit ==
  /\ WorkerInit
  /\ GuiInit
  /\ ha_token = ""
  /\ sim_mode = FALSE
  /\ CliIdle
  /\ HaIdle
  /\ LocIdle
  /\ TelIdle
  /\ EvalIdle
  /\ EditIdle
  /\ kelvin \in MinKelvin..MaxKelvin
  /\ mireds = None

MiredsNext == Convert

MiredsSpec == MiredsInit /\ [][MiredsNext]_vars

\* ---- location.py: the timezone cache ----------------------------------------
_CACHE_THRESHOLD_UNITS == 5000
XSamples == {0, 3000, 4999, 5000}
ZSamples == {0, 4000}
TzSamples == {<<60, "Europe/Paris">>, <<120, "Europe/Helsinki">>, <<0, "Europe/London">>}
\* answers of the lookup: a timezone and its offset of now, no timezone, an exception
LookupAnswers == {<<"found", tz[1], tz[2]>> : tz \in TzSamples}
                   \cup {<<"notfound">>, <<"exception">>}

\* math.isnan(v)
isnan(v) == v = NaN

\* math.hypot(x - cx, z - cz) < _CACHE_THRESHOLD_UNITS; false when a value is NaN
Near(x, z, cx, cz) ==
  /\ ~isnan(x) /\ ~isnan(z) /\ ~isnan(cx) /\ ~isnan(cz)
  /\ (x - cx) * (x - cx) + (z - cz) * (z - cz)
       < _CACHE_THRESHOLD_UNITS * _CACHE_THRESHOLD_UNITS

\* lines 109-112: the cache answers the call
CacheHit(x, z) ==
  /\ _cached_x # NoCoord /\ _cached_z # NoCoord
  /\ Near(x, z, _cached_x, _cached_z)

\* lines 115-157: the tuple a fresh lookup produces with the present answer
Lookup == IF tz_lookup[1] = "found" THEN <<tz_lookup[2], tz_lookup[3]>> ELSE <<0, NoTz>>

locfrozen == <<wvars, gvars, ovars, clivars, havars, mivars, telvars, evvars, edvars>>

\* get_timezone_offset() without the NaN guard of lines 105-106
getTimezoneOffsetNoNaNGuard(truck_x, truck_z) ==
  /\ loc_event' = "resolve"
  /\ loc_query' = <<truck_x, truck_z>>
  /\ IF FALSE
       THEN /\ loc_result' = <<0, NoTz>>
            /\ loc_looked' = FALSE
            /\ UNCHANGED <<_cached_x, _cached_z, _cached_tz_name, _cached_offset_min,
                           loc_origin, loc_fresh, loc_before_reset>>
       ELSE /\ loc_fresh' = FALSE
            /\ loc_before_reset' = IF loc_fresh THEN loc_before_reset
                                   ELSE <<NoCoord, NoCoord>>
            /\ IF CacheHit(truck_x, truck_z)
                 THEN /\ loc_result' = <<_cached_offset_min, _cached_tz_name>>
                      /\ loc_looked' = FALSE
                      /\ UNCHANGED <<_cached_x, _cached_z, _cached_tz_name,
                                     _cached_offset_min, loc_origin>>
                 ELSE /\ _cached_x' = truck_x
                      /\ _cached_z' = truck_z
                      /\ _cached_offset_min' = Lookup[1]
                      /\ _cached_tz_name' = Lookup[2]
                      /\ loc_result' = Lookup
                      /\ loc_looked' = TRUE
                      /\ loc_origin' = <<truck_x, truck_z, Lookup[1], Lookup[2]>>
  /\ UNCHANGED tz_lookup
  /\ UNCHANGED locfrozen

\* get_timezone_offset() without the cache test of lines 109-112
getTimezoneOffsetNoCache(truck_x, truck_z) ==
  /\ loc_event' = "resolve"
  /\ loc_query' = <<truck_x, truck_z>>
  /\ IF isnan(truck_x) \/ isnan(truck_z)
       THEN /\ loc_result' = <<0, NoTz>>
            /\ loc_looked' = FALSE
            /\ UNCHANGED <<_cached_x, _cached_z, _cached_tz_name, _cached_offset_min,
                           loc_origin, loc_fresh, loc_before_reset>>
       ELSE /\ loc_fresh' = FALSE
            /\ loc_before_reset' = IF loc_fresh THEN loc_before_reset
                                   ELSE <<NoCoord, NoCoord>>
            /\ IF FALSE
                 THEN /\ loc_result' = <<_cached_offset_min, _cached_tz_name>>
                      /\ loc_looked' = FALSE
                      /\ UNCHANGED <<_cached_x, _cached_z, _cached_tz_name,
                                     _cached_offset_min, loc_origin>>
                 ELSE /\ _cached_x' = truck_x
                      /\ _cached_z' = truck_z
                      /\ _cached_offset_min' = Lookup[1]
                      /\ _cached_tz_name' = Lookup[2]
                      /\ loc_result' = Lookup
                      /\ loc_looked' = TRUE
                      /\ loc_origin' = <<truck_x, truck_z, Lookup[1], Lookup[2]>>
  /\ UNCHANGED tz_lookup
  /\ UNCHANGED locfrozen

\* get_timezone_offset() whose cache hit moves the cached position
getTimezoneOffsetDrift(truck_x, truck_z) ==
  /\ loc_event' = "resolve"
  /\ loc_query' = <<truck_x, truck_z>>
  /\ IF isnan(truck_x) \/ isnan(truck_z)
       THEN /\ loc_result' = <<0, NoTz>>
            /\ loc_looked' = FALSE
            /\ UNCHANGED <<_cached_x, _cached_z, _cached_tz_name, _cached_offset_min,
                           loc_origin, loc_fresh, loc_before_reset>>
       ELSE /\ loc_fresh' = FALSE
            /\ loc_before_reset' = IF loc_fresh THEN loc_before_reset
                                   ELSE <<NoCoord, NoCoord>>
            /\ IF CacheHit(truck_x, truck_z)
                 THEN /\ loc_result' = <<_cached_offset_min, _cached_tz_name>>
                      /\ loc_looked' = FALSE
                      /\ _cached_x' = truck_x
                      /\ _cached_z' = truck_z
                      /\ UNCHANGED <<_cached_tz_name, _cached_offset_min, loc_origin>>
                 ELSE /\ _cached_x' = truck_x
                      /\ _cached_z' = truck_z
                      /\ _cached_offset_min' = Lookup[1]
                      /\ _cached_tz_name' = Lookup[2]
                      /\ loc_result' = Lookup
                      /\ loc_looked' = TRUE
                      /\ loc_origin' = <<truck_x, truck_z, Lookup[1], Lookup[2]>>
  /\ UNCHANGED tz_lookup
  /\ UNCHANGED locfrozen

\* get_timezone_offset() that leaves the cache alone when the lookup fails
getTimezoneOffsetFailureNotCached(truck_x, truck_z) ==
  /\ loc_event' = "resolve"
  /\ loc_query' = <<truck_x, truck_z>>
  /\ IF isnan(truck_x) \/ isnan(truck_z)
       THEN /\ loc_result' = <<0, NoTz>>
            /\ loc_looked' = FALSE
            /\ UNCHANGED <<_cached_x, _cached_z, _cached_tz_name, _cached_offset_min,
                           loc_origin, loc_fresh, loc_before_reset>>
       ELSE /\ loc_fresh' = FALSE
            /\ loc_before_reset' = IF loc_fresh THEN loc_before_reset
                                   ELSE <<NoCoord, NoCoord>>
            /\ IF CacheHit(truck_x, truck_z)
                 THEN /\ loc_result' = <<_cached_offset_min, _cached_tz_name>>
                      /\ loc_looked' = FALSE
                      /\ UNCHANGED <<_cached_x, _cached_z, _cached_tz_name,
                                     _cached_offset_min, loc_origin>>
                 ELSE /\ IF tz_lookup[1] = "found"
                           THEN /\ _cached_x' = truck_x
                                /\ _cached_z' = truck_z
                                /\ _cached_offset_min' = Lookup[1]
                                /\ _cached_tz_name' = Lookup[2]
                           ELSE UNCHANGED <<_cached_x, _cached_z, _cached_tz_name,
                                            _cached_offset_min>>
                      /\ loc_result' = Lookup
                      /\ loc_looked' = TRUE
                      /\ loc_origin' = <<truck_x, truck_z, Lookup[1], Lookup[2]>>
  /\ UNCHANGED tz_lookup
  /\ UNCHANGED locfrozen

\* get_timezone_offset() whose except clause re-raises to the caller
getTimezoneOffsetReraises(truck_x, truck_z) ==
  /\ loc_event' = "resolve"
  /\ loc_query' = <<truck_x, truck_z>>
  /\ IF isnan(truck_x) \/ isnan(truck_z)
       THEN /\ loc_result' = <<0, NoTz>>
            /\ loc_looked' = FALSE
            /\ UNCHANGED <<_cached_x, _cached_z, _cached_tz_name, _cached_offset_min,
                           loc_origin, loc_fresh, loc_before_reset>>
       ELSE /\ loc_fresh' = FALSE
            /\ loc_before_reset' = IF loc_fresh THEN loc_before_reset
                                   ELSE <<NoCoord, NoCoord>>
            /\ IF CacheHit(truck_x, truck_z)
                 THEN /\ loc_result' = <<_cached_offset_min, _cached_tz_name>>
                      /\ loc_looked' = FALSE
                      /\ UNCHANGED <<_cached_x, _cached_z, _cached_tz_name,
                                     _cached_offset_min, loc_origin>>
                 ELSE /\ _cached_x' = truck_x
                      /\ _cached_z' = truck_z
                      /\ _cached_offset_min' = Lookup[1]
                      /\ _cached_tz_name' = Lookup[2]
                      /\ loc_result' = IF tz_lookup[1] = "exception"
                                         THEN <<"raised">> ELSE Lookup
                      /\ loc_looked' = TRUE
                      /\ loc_origin' = <<truck_x, truck_z, Lookup[1], Lookup[2]>>
  /\ UNCHANGED tz_lookup
  /\ UNCHANGED locfrozen

\* get_timezone_offset(truck_x, truck_z)
get_timezone_offset(truck_x, truck_z) ==
  /\ loc_event' = "resolve"
  /\ loc_query' = <<truck_x, truck_z>>
  /\ IF isnan(truck_x) \/ isnan(truck_z)
       THEN /\ loc_result' = <<0, NoTz>>
            /\ loc_looked' = FALSE
            /\ UNCHANGED <<_cached_x, _cached_z, _cached_tz_name, _cached_offset_min,
                           loc_origin, loc_fresh, loc_before_reset>>
       ELSE /\ loc_fresh' = FALSE
            /\ loc_before_reset' = IF loc_fresh THEN loc_before_reset
                                   ELSE <<NoCoord, NoCoord>>
            /\ IF CacheHit(truck_x, truck_z)
                 THEN /\ loc_result' = <<_cached_offset_min, _cached_tz_name>>
                      /\ loc_looked' = FALSE
                      /\ UNCHANGED <<_cached_x, _cached_z, _cached_tz_name,
                                     _cached_offset_min, loc_origin>>
                 ELSE /\ _cached_x' = truck_x
                      /\ _cached_z' = truck_z
                      /\ _cached_offset_min' = Lookup[1]
                      /\ _cached_tz_name' = Lookup[2]
                      /\ loc_result' = Lookup
                      /\ loc_looked' = TRUE
                      /\ loc_origin' = <<truck_x, truck_z, Lookup[1], Lookup[2]>>
  /\ UNCHANGED tz_lookup
  /\ UNCHANGED locfrozen

Resolve ==
  \E x \in XSamples \cup {NaN}, z \in ZSamples \cup {NaN} : get_timezone_offset(x, z)

\* reset_cache() that keeps the cached position
resetCacheKeepsPosition ==
  /\ _cached_tz_name' = NoTz
  /\ _cached_offset_min' = 0
  /\ loc_event' = "reset"
  /\ loc_fresh' = TRUE
  /\ loc_before_reset' = <<_cached_x, _cached_z>>
  /\ UNCHANGED <<_cached_x, _cached_z, loc_query, loc_result, loc_looked, loc_origin,
                 tz_lookup>>
  /\ UNCHANGED locfrozen

\* reset_cache()
reset_cache ==
  /\ _cached_x' = NoCoord
  /\ _cached_z' = NoCoord
  /\ _cached_tz_name' = NoTz
  /\ _cached_offset_min' = 0
  /\ loc_event' = "reset"
  /\ loc_fresh' = TRUE
  /\ loc_before_reset' = <<_cached_x, _cached_z>>
  /\ UNCHANGED <<loc_query, loc_result, loc_looked, loc_origin, tz_lookup>>
  /\ UNCHANGED locfrozen

\* the world outside: the truck crosses a border, the clock changes, the
\* timezone data is missing or the lookup is replaced by a failing stub
SetLookup ==
  /\ \E a \in LookupAnswers : tz_lookup' = a
  /\ tz_lookup' # tz_lookup
  /\ UNCHANGED <<_cached_x, _cached_z, _cached_tz_name, _cached_offset_min, loc_event,
                 loc_query, loc_result, loc_looked, loc_origin, loc_fresh,
                 loc_before_reset>>
  /\ UNCHANGED locfrozen

LocInit ==
  /\ WorkerInit
  /\ GuiInit
  /\ ha_token = ""
  /\ sim_mode = FALSE
  /\ CliIdle
  /\ HaIdle
  /\ MiredsIdle
  /\ LocIdle
  /\ TelIdle
  /\ EvalIdle
  /\ EditIdle

LocNext == Resolve \/ reset_cache \/ SetLookup

LocSpec == LocInit /\ [][LocNext]_vars

\* ---- telemetry.py: one read of the shared memory ----------------------------
Platforms == {"win32", "linux"}
OpenOutcomes == {"handle", "null", "exception"}
MapOutcomes == {"ptr", "null", "exception"}
DecodeOutcomes == {"ok", "exception"}
\* the four bytes at _TIME_ABS_OFFSET as an unsigned 32-bit number, written
\* <<high 16 bits, low 16 bits>>: 0, 1439, 1440, 65535, 65536, 2^31 - 1, 2^31, 2^32 - 1
CounterSamples == {<<0, 0>>, <<0, 1439>>, <<0, 1440>>, <<0, 65535>>, <<1, 0>>,
                   <<32767, 65535>>, <<32768, 0>>, <<65535, 65535>>}
TruckSamples == {<<0, 0>>, <<NaN, NaN>>}
SimStartSamples == {0, 360, 1439}
SimTickSamples == {0, 1, 1080, 1440, 100000}

\* time_abs % 1440 for time_abs = hi * 65536 + lo
Mod1440(time_abs) == ((time_abs[1] % 1440) * (65536 % 1440) + time_abs[2]) % 1440

\* Telemetry(...) read from a 16-bit counter
TelemetryLowHalf(time_abs, paused, truck) ==
  <<time_abs[2] % 1440, paused, truck[1], truck[2]>>

\* Telemetry(game_time=time_abs % 1440, paused, truck_x, truck_z)
Telemetry(time_abs, paused, truck) ==
  <<Mod1440(time_abs), paused, truck[1], truck[2]>>

\* the inner try block that never tests sdk_active
unpackIgnoresFlag(env) ==
  IF env.decode = "exception" THEN Exc
  ELSE Telemetry(env.time_abs, env.paused, env.truck)

\* the inner try block: bytes(raw) and the struct.unpack_from calls
unpack(env) ==
  IF env.decode = "exception" THEN Exc
  ELSE IF ~env.sdk_active THEN TelNone
  ELSE Telemetry(env.time_abs, env.paused, env.truck)

\* except Exception: log.warning(...); return None
caught(pending) == IF pending = Exc THEN TelNone ELSE pending

telfrozen == <<wvars, gvars, ovars, clivars, havars, mivars, locvars, evvars, edvars>>

\* get_telemetry(): None off Windows, else _read_shared_memory()
get_telemetry ==
  /\ tel_pc \in {"idle", "done"}
  /\ \E p \in Platforms : tel_env' = [NoEnv EXCEPT !.platform = p]
  /\ tel_pending' = NoCall
  /\ tel_result' = IF tel_env'.platform # "win32" THEN TelNone ELSE NoCall
  /\ tel_pc' = IF tel_env'.platform # "win32" THEN "done" ELSE "open"
  /\ UNCHANGED <<tel_handle, tel_view, tel_sim_args, tel_sim>>
  /\ UNCHANGED telfrozen

\* WinDLL(...) and OpenFileMappingW(...); "if not handle: return None"
OpenFileMappingW ==
  /\ tel_pc = "open"
  /\ \E o \in OpenOutcomes : tel_env' = [tel_env EXCEPT !.open = o]
  /\ IF tel_env'.open = "handle"
       THEN /\ tel_handle' = TRUE
            /\ tel_pc' = "map"
            /\ UNCHANGED tel_result
       ELSE /\ tel_result' = TelNone
            /\ tel_pc' = "done"
            /\ UNCHANGED tel_handle
  /\ UNCHANGED <<tel_view, tel_pending, tel_sim_args, tel_sim>>
  /\ UNCHANGED telfrozen

\* MapViewOfFile(...); "if not ptr: ... return None"
MapViewOfFile ==
  /\ tel_pc = "map"
  /\ \E o \in MapOutcomes : tel_env' = [tel_env EXCEPT !.map = o]
  /\ IF tel_env'.map = "ptr"
       THEN /\ tel_view' = TRUE
            /\ tel_pc' = "read"
            /\ UNCHANGED tel_pending
       ELSE /\ tel_pending' = IF tel_env'.map = "null" THEN TelNone ELSE Exc
            /\ tel_pc' = "close"
            /\ UNCHANGED tel_view
  /\ UNCHANGED <<tel_handle, tel_result, tel_sim_args, tel_sim>>
  /\ UNCHANGED telfrozen

\* what the 2224 bytes hold and whether copying or unpacking them raises
ReadBlock ==
  \E d \in DecodeOutcomes, a \in BOOLEAN, t \in CounterSamples, p \in BOOLEAN,
     xz \in TruckSamples :
    tel_env' = [tel_env EXCEPT !.decode = d, !.sdk_active = a, !.time_abs = t,
                               !.paused = p, !.truck = xz]

\* the inner try block whose return on an inactive flag leaves the function
\* at once
ReadReturnsAtOnce ==
  /\ tel_pc = "read"
  /\ ReadBlock
  /\ tel_pending' = unpack(tel_env')
  /\ IF tel_pending' = TelNone
       THEN tel_pc' = "done" /\ tel_result' = TelNone
       ELSE tel_pc' = "unmap" /\ UNCHANGED tel_result
  /\ UNCHANGED <<tel_handle, tel_view, tel_sim_args, tel_sim>>
  /\ UNCHANGED telfrozen

\* the inner try block: every way out of it goes through its finally
Read ==
  /\ tel_pc = "read"
  /\ ReadBlock
  /\ tel_pending' = unpack(tel_env')
  /\ tel_pc' = "unmap"
  /\ UNCHANGED <<tel_handle, tel_view, tel_result, tel_sim_args, tel_sim>>
  /\ UNCHANGED telfrozen

\* finally: UnmapViewOfFile(ptr)
UnmapViewOfFile ==
  /\ tel_pc = "unmap"
  /\ tel_view' = FALSE
  /\ tel_pc' = "close"
  /\ UNCHANGED <<tel_env, tel_handle, tel_pending, tel_result, tel_sim_args, tel_sim>>
  /\ UNCHANGED telfrozen

\* finally: CloseHandle(handle); then the value is returned, or the exception
\* reaches the outer except clause
CloseHandle ==
  /\ tel_pc = "close"
  /\ tel_handle' = FALSE
  /\ tel_result' = caught(tel_pending)
  /\ tel_pc' = "done"
  /\ UNCHANGED <<tel_env, tel_view, tel_pending, tel_sim_args, tel_sim>>
  /\ UNCHANGED telfrozen

\* _sim_time() of the two loops, between two reads
SimTime ==
  /\ tel_pc \in {"idle", "done"}
  /\ \E start \in SimStartSamples, ticks \in SimTickSamples :
       /\ tel_sim_args' = <<start, ticks>>
       /\ tel_sim' = sim_time(start, ticks)
  /\ UNCHANGED <<tel_pc, tel_env, tel_handle, tel_view, tel_pending, tel_result>>
  /\ UNCHANGED telfrozen

TelInit ==
  /\ WorkerInit
  /\ GuiInit
  /\ ha_token = ""
  /\ sim_mode = FALSE
  /\ CliIdle
  /\ HaIdle
  /\ MiredsIdle
  /\ LocIdle
  /\ TelIdle
  /\ EvalIdle
  /\ EditIdle

TelNext ==
  \/ get_telemetry
  \/ OpenFileMappingW
  \/ MapViewOfFile
  \/ Read
  \/ UnmapViewOfFile
  \/ CloseHandle
  \/ SimTime

TelSpec == TelInit /\ [][TelNext]_vars

\* ---- curve_editor._interp_at: evaluation of a waypoint list -------------------
\* most waypoints of a sampled waypoint list
MaxWaypoints == 3

\* math.cos(j * pi / 720) * EaseScale for j = 0..360, to the nearest integer
EaseScale == 1000000000
CosTable720 ==
  <<
     1000000000, 999990481, 999961923, 999914328, 999847695, 999762027, 999657325, 999533591,
     999390827, 999229036, 999048222, 998848386, 998629535, 998391671, 998134798, 997858923,
     997564050, 997250185, 996917334, 996565502, 996194698, 995804928, 995396198, 994968518,
     994521895, 994056338, 993571856, 993068457, 992546152, 992004950, 991444861, 990865897,
     990268069, 989651387, 989015863, 988361510, 987688341, 986996367, 986285602, 985556059,
     984807753, 984040698, 983254908, 982450398, 981627183, 980785280, 979924705, 979045472,
     978147601, 977231106, 976296007, 975342321, 974370065, 973379258, 972369920, 971342070,
     970295726, 969230910, 968147640, 967045939, 965925826, 964787324, 963630453, 962455236,
     961261696, 960049854, 958819735, 957571361, 956304756, 955019944, 953716951, 952395800,
     951056516, 949699126, 948323655, 946930129, 945518576, 944089020, 942641491, 941176015,
     939692621, 938191336, 936672189, 935135210, 933580426, 932007869, 930417568, 928809553,
     927183855, 925540504, 923879533, 922200972, 920504853, 918791210, 917060074, 915311479,
     913545458, 911762044, 909961271, 908143174, 906307787, 904455145, 902585284, 900698239,
     898794046, 896872742, 894934362, 892978943, 891006524, 889017141, 887010833, 884987637,
     882947593, 880890738, 878817113, 876726756, 874619707, 872496007, 870355696, 868198814,
     866025404, 863835505, 861629160, 859406412, 857167301, 854911871, 852640164, 850352225,
     848048096, 845727822, 843391446, 841039013, 838670568, 836286156, 833885822, 831469612,
     829037573, 826589749, 824126189, 821646938, 819152044, 816641555, 814115518, 811573982,
     809016994, 806444604, 803856861, 801253813, 798635510, 796002003, 793353340, 790689574,
     788010754, 785316931, 782608157, 779884483, 777145961, 774392644, 771624583, 768841832,
     766044443, 763232470, 760405966, 757564984, 754709580, 751839807, 748955721, 746057375,
     743144825, 740218127, 737277337, 734322509, 731353702, 728370970, 725374371, 722363962,
     719339800, 716301943, 713250449, 710185376, 707106781, 704014724, 700909264, 697790460,
     694658370, 691513056, 688354576, 685182990, 681998360, 678800746, 675590208, 672366807,
     669130606, 665881666, 662620048, 659345815, 656059029, 652759752, 649448048, 646123980,
     642787610, 639439002, 636078220, 632705329, 629320391, 625923472, 622514637, 619093949,
     615661475, 612217280, 608761429, 605293988, 601815023, 598324601, 594822787, 591309648,
     587785252, 584249666, 580702956, 577145190, 573576436, 569996763, 566406237, 562804928,
     559192903, 555570233, 551936985, 548293230, 544639035, 540974471, 537299608, 533614516,
     529919264, 526213924, 522498565, 518773258, 515038075, 511293086, 507538363, 503773977,
     500000000, 496216504, 492423560, 488621241, 484809620, 480988769, 477158760, 473319667,
     469471563, 465614520, 461748613, 457873915, 453990500, 450098441, 446197813, 442288690,
     438371147, 434445257, 430511097, 426568740, 422618262, 418659738, 414693243, 410718853,
     406736643, 402746690, 398749069, 394743856, 390731128, 386710962, 382683432, 378648617,
     374606593, 370557438, 366501227, 362438038, 358367950, 354291038, 350207381, 346117057,
     342020143, 337916718, 333806859, 329690645, 325568154, 321439465, 317304656, 313163806,
     309016994, 304864299, 300705800, 296541575, 292371705, 288196268, 284015345, 279829014,
     275637356, 271440450, 267238376, 263031214, 258819045, 254601948, 250380004, 246153293,
     241921896, 237685892, 233445364, 229200391, 224951054, 220697435, 216439614, 212177672,
     207911691, 203641751, 199367934, 195090322, 190808995, 186524036, 182235525, 177943545,
     173648178, 169349504, 165047606, 160742566, 156434465, 152123386, 147809411, 143492622,
     139173101, 134850930, 130526192, 126198969, 121869343, 117537397, 113203214, 108866875,
     104528463, 100188062, 95845753, 91501619, 87155743, 82808208, 78459096, 74108490,
     69756474, 65403129, 61048540, 56692788, 52335956, 47978129, 43619387, 39259816,
     34899497, 30538513, 26176948, 21814885, 17452406, 13089596, 8726535, 4363309,
     0 >>

\* math.cos at j * pi / 720 for j in 0..720, scaled by EaseScale
Cos720(j) == IF j <= 360 THEN CosTable720[j + 1] ELSE 0 - CosTable720[720 - j + 1]

\* p = (1.0 - math.cos(frac * math.pi)) / 2.0 at frac = j / 720, scaled by 2 * EaseScale
ease(j) == EaseScale - Cos720(j)

\* the exponent of the double n: the largest e with 2^e <= n
RECURSIVE ilog2(_)
ilog2(n) == IF n < 2 THEN 0 ELSE 1 + ilog2(n \div 2)

\* p2 * d = q * (2 * EaseScale) + r with 0 <= r < 2 * EaseScale, as <<q, r>>,
\* multiplied in limbs of three decimal digits to stay within 32 bits
MulDiv(p2, d) ==
  LET a == p2 \div 1000000
      b == (p2 \div 1000) % 1000
      c == p2 % 1000
      Y == (d * b) + ((d * c) \div 1000)
      X == (d * a) + (Y \div 1000)
  IN  <<X \div 2000, ((X % 2000) * 1000000) + ((Y % 1000) * 1000) + ((d * c) % 1000)>>

\* A double is written <<w, r, side>>: w + r / (2 * EaseScale) with
\* 0 <= r < 2 * EaseScale; side tells, when that number is an exact half,
\* whether the double is a hair below it (-1), on it (0) or a hair above it (1).
\* TieSide: where v0 + p * (v1 - v0) falls when its exact value is a half.
\* math.cos gives p one or two units in the last place below 1/4, 1/2, 3/4
\* (j = 240, 360, 480); the product keeps the deficit and the sum keeps it
\* unless the sum's exponent exceeds the product's by enough to absorb it.
TieSide(v0, v1, j) ==
  LET d == IF v1 > v0 THEN v1 - v0 ELSE v0 - v1
      B == IF j = 360 THEN d ELSE IF j = 240 THEN d \div 2 ELSE (3 * d) \div 2
      T2 == IF v1 > v0 THEN 2 * v0 + B ELSE 2 * v0 - B
      k == IF j = 240 /\ 2 * B >= 3 * 2^ilog2(B) THEN 2 ELSE 1
      absorbed == \/ 2 * k * 2^ilog2(B) <= 2^ilog2(T2)
                  \/ d = 1 /\ v0 >= 1
  IN  IF absorbed THEN 0 ELSE IF v1 > v0 THEN 0 - 1 ELSE 1

\* the blend that adds p times the next waypoint's value
blendNoDifference(v0, v1, j) ==
  LET m == MulDiv(ease(j), v1)
  IN  <<v0 + m[1], m[2], 0>>

\* waypoints[i][col] + p * (waypoints[i + 1][col] - waypoints[i][col])
blend(v0, v1, j) ==
  IF v1 = v0 THEN <<v0, 0, 0>>
  ELSE LET d == IF v1 > v0 THEN v1 - v0 ELSE v0 - v1
           m == MulDiv(ease(j), d)
           x == IF v1 > v0 THEN <<v0 + m[1], m[2]>>
                ELSE IF m[2] = 0 THEN <<v0 - m[1], 0>>
                ELSE <<v0 - m[1] - 1, 2 * EaseScale - m[2]>>
       IN  <<x[1], x[2],
             IF x[2] = EaseScale /\ j \in {240, 360, 480} THEN TieSide(v0, v1, j) ELSE 0>>

\* the loop whose test is t0 < t <= t1
BracketUpperInclusive(waypoints, t) ==
  LET I == {i \in 1..(Len(waypoints) - 1) :
              waypoints[i][1] < t /\ t <= waypoints[i + 1][1]}
  IN  IF I = {} THEN 0 ELSE CHOOSE i \in I : \A j \in I : i <= j

\* for i in range(len(waypoints) - 1): if t0 <= t < t1: the first such i, counted
\* from 1; 0 when the loop runs out
Bracket(waypoints, t) ==
  LET I == {i \in 1..(Len(waypoints) - 1) :
              waypoints[i][1] <= t /\ t < waypoints[i + 1][1]}
  IN  IF I = {} THEN 0 ELSE CHOOSE i \in I : \A j \in I : i <= j

\* _interp_at() without t = t % 1440
interpAtNoModulo(waypoints, t0, col) ==
  LET t == t0
      i == Bracket(waypoints, t)
  IN  IF i = 0 THEN <<waypoints[1][col + 1], 0, 0>>
      ELSE blend(waypoints[i][col + 1], waypoints[i + 1][col + 1],
                 ((t - waypoints[i][1]) * 720) \div (waypoints[i + 1][1] - waypoints[i][1]))

\* _interp_at() that falls back to the last waypoint
interpAtFallbackLast(waypoints, t0, col) ==
  LET t == t0 % 1440
      i == Bracket(waypoints, t)
  IN  IF i = 0 THEN <<waypoints[Len(waypoints)][col + 1], 0, 0>>
      ELSE blend(waypoints[i][col + 1], waypoints[i + 1][col + 1],
                 ((t - waypoints[i][1]) * 720) \div (waypoints[i + 1][1] - waypoints[i][1]))

\* _interp_at(waypoints, t, col): col = 1 is the brightness, col = 2 the Kelvin;
\* frac = (t - t0) / (t1 - t0) is taken in 720ths
_interp_at(waypoints, t0, col) ==
  LET t == t0 % 1440
      i == Bracket(waypoints, t)
  IN  IF i = 0 THEN <<waypoints[1][col + 1], 0, 0>>
      ELSE blend(waypoints[i][col + 1], waypoints[i + 1][col + 1],
                 ((t - waypoints[i][1]) * 720) \div (waypoints[i + 1][1] - waypoints[i][1]))

\* Python round() of a double: to the nearest integer, an exact half to the even one
round(x) ==
  IF x[2] < EaseScale THEN x[1]
  ELSE IF x[2] > EaseScale THEN x[1] + 1
  ELSE IF x[3] < 0 THEN x[1]
  ELSE IF x[3] > 0 THEN x[1] + 1
  ELSE IF x[1] % 2 = 0 THEN x[1] ELSE x[1] + 1

\* (round(_interp_at(wps, t, 1)), round(_interp_at(wps, t, 2)))
evaluate(waypoints, t) ==
  <<round(_interp_at(waypoints, t, 1)), round(_interp_at(waypoints, t, 2))>>

WaypointTimes == {0, 360, 720, 1080, 1200, 1440}
WaypointValues == {<<0, 1000>>, <<13, 2200>>, <<255, 5500>>, <<128, 10000>>}
Waypoints == {<<t, v[1], v[2]>> : t \in WaypointTimes, v \in WaypointValues}
EvalTimes == {0, 1, 180, 240, 359, 360, 480, 540, 719, 720, 900, 1080, 1140, 1199, 1200, 1439,
              1440}
Shifts == {0 - 2, 0 - 1, 1}

\* times strictly ascending
Ascending(w) == \A i \in 1..(Len(w) - 1) : w[i][1] < w[i + 1][1]

\* every blending segment is as long as a divisor of 720 minutes, so that frac
\* is a whole number of 720ths
Tabulated(w) ==
  \A i \in 1..(Len(w) - 1) :
    \/ 720 % (w[i + 1][1] - w[i][1]) = 0
    \/ (w[i][2] = w[i + 1][2] /\ w[i][3] = w[i + 1][3])

\* a curve of an evening, a day and a morning: dark until midnight, full
\* brightness from 06:00 to 18:00, dark again from 20:00
ExampleCurve ==
  <<<<0, 0, 2700>>, <<360, 255, 5500>>, <<1080, 255, 5200>>, <<1200, 0, 2700>>,
    <<1440, 0, 2700>>>>

EvalCurves ==
  UNION {{w \in [1..n -> Waypoints] : Ascending(w) /\ Tabulated(w)} : n \in 2..MaxWaypoints}
    \cup {ExampleCurve}

evalfrozen == <<wvars, gvars, ovars, clivars, havars, mivars, locvars, telvars, edvars>>

\* the rounded values of the waypoint list at a time and at the same time
\* some days away
Evaluate ==
  /\ ev_pc = "idle"
  /\ ev_curve # NoCall
  /\ \E t \in EvalTimes, k \in Shifts :
       /\ ev_t' = t
       /\ ev_k' = k
       /\ ev_raw' = <<_interp_at(ev_curve, t, 1), _interp_at(ev_curve, t, 2)>>
       /\ ev_out' = evaluate(ev_curve, t)
       /\ ev_shifted' = evaluate(ev_curve, t + 1440 * k)
  /\ ev_pc' = "done"
  /\ UNCHANGED ev_curve
  /\ UNCHANGED evalfrozen

\* calculate_light() at a time of day and at the same time some days away
CalculateLight ==
  /\ ev_pc = "idle"
  /\ ev_curve = NoCall
  /\ \E t \in 0..1439, k \in Shifts :
       /\ ev_t' = t
       /\ ev_k' = k
       /\ ev_out' = calculate_light(t)
       /\ ev_shifted' = calculate_light(t + 1440 * k)
  /\ ev_pc' = "done"
  /\ UNCHANGED <<ev_curve, ev_raw>>
  /\ UNCHANGED evalfrozen

EvalInit ==
  /\ WorkerInit
  /\ GuiInit
  /\ ha_token = ""
  /\ sim_mode = FALSE
  /\ CliIdle
  /\ HaIdle
  /\ MiredsIdle
  /\ LocIdle
  /\ TelIdle
  /\ ev_pc = "idle"
  /\ ev_curve \in EvalCurves \cup {NoCall}
  /\ ev_t = None
  /\ ev_k = 0
  /\ ev_raw = NoCall
  /\ ev_out = NoCall
  /\ ev_shifted = NoCall
  /\ EditIdle

EvalNext == Evaluate \/ CalculateLight

EvalSpec == EvalInit /\ [][EvalNext]_vars

\* ---- curve_editor.py: the curve editor ----------------------------------------
\* most handlers run in one session of the editor
MaxEdits == 3

\* light_curve._CURVE: a curve as the specification defines one (first waypoint
\* at 0, final waypoint at 1440 with the values of the first), holding the
\* night and day values of light_curve.py
_DEFAULT_CURVE ==
  <<<<0, NIGHT_BRIGHTNESS, NIGHT_KELVIN>>, <<720, DAY_BRIGHTNESS, DAY_KELVIN>>,
    <<1440, NIGHT_BRIGHTNESS, NIGHT_KELVIN>>>>

\* a custom curve of the configuration
CustomCurve ==
  <<<<0, NIGHT_BRIGHTNESS, NIGHT_KELVIN>>, <<360, DAY_BRIGHTNESS, DAY_KELVIN>>,
    <<1080, DAY_BRIGHTNESS, DAY_KELVIN>>, <<1440, NIGHT_BRIGHTNESS, NIGHT_KELVIN>>>>

\* what _from_px() makes of a mouse position: minutes 0..1440, brightness 0..255
DragTargets == {<<600, 255>>, <<1440, 13>>}
\* texts typed into a time cell, as (hh, mm); <<>> is a text that is no "hh:mm"
TimeTexts == {<<12, 0>>, <<24, 0>>, <<>>}
\* texts typed into a brightness and into a Kelvin cell, as integers; None is a
\* text that is no integer
BrightnessTexts == {255, 256, None}
KelvinTexts == {5500, 999}

editfrozen == <<wvars, gvars, ovars, clivars, havars, mivars, locvars, telvars, evvars>>

\* the list with element i replaced
SetAt(wps, i, wp) == [wps EXCEPT ![i] = wp]

max(a, b) == IF a >= b THEN a ELSE b
min(a, b) == IF a <= b THEN a ELSE b

\* CurvePreviewWidget.mousePressEvent: a left press that hits handle idx
mousePressEvent ==
  /\ _wps # NoCall
  /\ ed_ops < MaxEdits
  /\ ed_ops' = ed_ops + 1
  /\ _drag_idx = 0
  /\ \E idx \in 1..Len(canvas_wps) :
       /\ _drag_idx' = idx
       /\ _drag_t_min' = IF idx > 1 THEN canvas_wps[idx - 1][1] ELSE 0
       /\ _drag_t_max' = IF idx < Len(canvas_wps) THEN canvas_wps[idx + 1][1] ELSE 1440
  /\ ed_event' = <<"press">>
  /\ UNCHANGED <<_wps, canvas_wps>>
  /\ UNCHANGED editfrozen

\* CurvePreviewWidget.mouseMoveEvent during a drag, and _on_canvas_changed on
\* the signal it emits
mouseMoveEvent ==
  /\ _wps # NoCall
  /\ ed_ops < MaxEdits
  /\ ed_ops' = ed_ops + 1
  /\ _drag_idx # 0
  /\ IF _drag_idx > Len(canvas_wps)
       THEN /\ ed_event' = <<"move", "IndexError">>
            /\ UNCHANGED <<_wps, canvas_wps>>
       ELSE \E target \in DragTargets :
              LET wp == canvas_wps[_drag_idx]
                  t == IF _drag_idx \notin {1, Len(canvas_wps)}
                         THEN max(_drag_t_min + 1, min(_drag_t_max - 1, target[1]))
                         ELSE wp[1]
              IN  /\ canvas_wps' = SetAt(canvas_wps, _drag_idx, <<t, target[2], wp[3]>>)
                  /\ _wps' = canvas_wps'
                  /\ ed_event' = <<"move", "ok">>
  /\ UNCHANGED <<_drag_idx, _drag_t_min, _drag_t_max>>
  /\ UNCHANGED editfrozen

\* CurvePreviewWidget.mouseReleaseEvent
mouseReleaseEvent ==
  /\ _wps # NoCall
  /\ ed_ops < MaxEdits
  /\ ed_ops' = ed_ops + 1
  /\ _drag_idx # 0
  /\ _drag_idx' = 0
  /\ ed_event' = <<"release">>
  /\ UNCHANGED <<_wps, canvas_wps, _drag_t_min, _drag_t_max>>
  /\ UNCHANGED editfrozen

\* the try block of _on_table_changed for the time column: the minutes, or
\* None for a ValueError
ParseTime(row, text) ==
  IF Len(text) # 2 THEN None
  ELSE IF ~(0 <= text[1] /\ text[1] <= 23 /\ 0 <= text[2] /\ text[2] <= 59) THEN None
  ELSE LET minutes == text[1] * 60 + text[2]
           t_prev == IF row > 1 THEN _wps[row - 1][1] ELSE 0 - 1
           t_next == IF row < Len(_wps) THEN _wps[row + 1][1] ELSE 1441
       IN  IF t_prev < minutes /\ minutes < t_next THEN minutes ELSE None

\* int(text) within lo..hi, or None for a ValueError
ParseInt(text, lo, hi) == IF text # None /\ lo <= text /\ text <= hi THEN text ELSE None

\* CurveEditorDialog._on_table_changed for cell (row, col) holding the parsed
\* value v: a ValueError reverts the cell and leaves the lists alone
TableChanged(row, col, v) ==
  IF v = None
    THEN /\ ed_event' = <<"table", "rejected">>
         /\ UNCHANGED <<_wps, canvas_wps>>
    ELSE /\ _wps' = SetAt(_wps, row, [_wps[row] EXCEPT ![col] = v])
         /\ canvas_wps' = _wps'
         /\ ed_event' = <<"table", "ok">>

\* CurveEditorDialog._on_table_changed: the time cells of the first and the last
\* row are not editable
_on_table_changed ==
  /\ _wps # NoCall
  /\ ed_ops < MaxEdits
  /\ ed_ops' = ed_ops + 1
  /\ \E row \in 1..Len(_wps) :
       \/ /\ row \notin {1, Len(_wps)}
          /\ \E text \in TimeTexts : TableChanged(row, 1, ParseTime(row, text))
       \/ \E text \in BrightnessTexts : TableChanged(row, 2, ParseInt(text, 0, 255))
       \/ \E text \in KelvinTexts : TableChanged(row, 3, ParseInt(text, 1000, 10000))
  /\ UNCHANGED <<_drag_idx, _drag_t_min, _drag_t_max>>
  /\ UNCHANGED editfrozen

\* the list with wp inserted so that it becomes element i
InsertAt(wps, i, wp) == SubSeq(wps, 1, i - 1) \o <<wp>> \o SubSeq(wps, i, Len(wps))

\* the list without element i
RemoveAt(wps, i) == SubSeq(wps, 1, i - 1) \o SubSeq(wps, i + 1, Len(wps))

\* CurveEditorDialog._add_waypoint with table row sel selected (0: none); rows
\* are counted from 1
_add_waypoint ==
  /\ _wps # NoCall
  /\ ed_ops < MaxEdits
  /\ ed_ops' = ed_ops + 1
  /\ \E sel \in 0..Len(_wps) :
       LET row == max(1, min(IF sel # 0 THEN sel ELSE Len(_wps) - 1, Len(_wps) - 1))
           t0 == _wps[row][1]
           t1 == _wps[row + 1][1]
           new_t == (t0 + t1) \div 2
       IN  IF t1 - t0 < 2
             THEN /\ ed_event' = <<"add", "skipped">>
                  /\ UNCHANGED <<_wps, canvas_wps>>
             ELSE /\ _wps' = InsertAt(_wps, row + 1,
                                      <<new_t, round(_interp_at(_wps, new_t, 1)),
                                        round(_interp_at(_wps, new_t, 2))>>)
                  /\ canvas_wps' = _wps'
                  /\ ed_event' = <<"add", "ok">>
  /\ UNCHANGED <<_drag_idx, _drag_t_min, _drag_t_max>>
  /\ UNCHANGED editfrozen

\* CurveEditorDialog._remove_waypoint with table row sel selected (0: none)
_remove_waypoint ==
  /\ _wps # NoCall
  /\ ed_ops < MaxEdits
  /\ ed_ops' = ed_ops + 1
  /\ \E sel \in 0..Len(_wps) :
       IF Len(_wps) <= 3 \/ sel = 0 \/ sel = 1 \/ sel = Len(_wps)
         THEN /\ ed_event' = <<"remove", "skipped">>
              /\ UNCHANGED <<_wps, canvas_wps>>
         ELSE /\ _wps' = RemoveAt(_wps, sel)
              /\ canvas_wps' = _wps'
              /\ ed_event' = <<"remove", "ok">>
  /\ UNCHANGED <<_drag_idx, _drag_t_min, _drag_t_max>>
  /\ UNCHANGED editfrozen

\* CurveEditorDialog._reset_defaults
_reset_defaults ==
  /\ _wps # NoCall
  /\ ed_ops < MaxEdits
  /\ ed_ops' = ed_ops + 1
  /\ _wps' = _DEFAULT_CURVE
  /\ canvas_wps' = _wps'
  /\ ed_event' = <<"reset">>
  /\ UNCHANGED <<_drag_idx, _drag_t_min, _drag_t_max>>
  /\ UNCHANGED editfrozen

\* CurveEditorDialog.__init__ on the built-in or on a custom curve
EditInit ==
  /\ WorkerInit
  /\ GuiInit
  /\ ha_token = ""
  /\ sim_mode = FALSE
  /\ CliIdle
  /\ HaIdle
  /\ MiredsIdle
  /\ LocIdle
  /\ TelIdle
  /\ EvalIdle
  /\ _wps \in {_DEFAULT_CURVE, CustomCurve}
  /\ canvas_wps = _wps
  /\ _drag_idx = 0
  /\ _drag_t_min = 0
  /\ _drag_t_max = 1440
  /\ ed_event = NoCall
  /\ ed_ops = 0

EditNext ==
  \/ mousePressEvent
  \/ mouseMoveEvent
  \/ mouseReleaseEvent
  \/ _on_table_changed
  \/ _add_waypoint
  \/ _remove_waypoint
  \/ _reset_defaults

EditSpec == EditInit /\ [][EditNext]_vars

\* ---- scheduling -----------------------------------------------------------
\* a started thread keeps being scheduled while the process lives, and the
\* window's thread returns from wait() once the worker has finished; clicks,
\* signals and the settings dialog are up to the user
FairSpec ==
  /\ Init /\ [][Next]_vars
  /\ \A w \in Workers : WF_vars(WorkerStep(w))
  /\ WF_vars(WaitReturn)

\* ---- properties -----------------------------------------------------------
\* positions of run() inside the poll loop (lines 87-120)
LoopPcs == {"loop", "poll", "branch", "disc_reset", "calc", "set_light", "sleep", "slice"}

\* C1: with no auth token in the configuration, run() goes from its start
\* straight to the error exit: "error" is the only status it emits, it never
\* sets the running flag or enters the poll loop, and it issues no light call.
C1_NoTokenGoesToError ==
  /\ [][\A w \in Workers :
          (pc[w] = "load" /\ ha_token = "" /\ pc'[w] # "load")
            => /\ last_event[w] = NoEvent
               /\ last_event'[w] = "error"
               /\ pc'[w] = "returned"]_vars
  /\ [](\A w \in Workers :
          last_event[w] = "error"
            => /\ pc[w] = "returned"
               /\ ~_running[w]
               /\ ~called[w]
               /\ cleanup_resets[w] = 0
               /\ last_call[w] = NoCall)

C1_Witness ==
  \E w \in Workers :
    pc[w] = "returned" /\ last_event[w] = "error" /\ ~called[w] /\ ha_token = ""

\* C2: a poll without telemetry right after a connected poll issues exactly one
\* reset() and emits "waiting" only after that call; a poll without telemetry
\* while the game was not running issues no light call and emits nothing.
C2_DisconnectResetsOnce ==
  /\ [][\A w \in Workers :
          (pc[w] = "branch" /\ game_time[w] = None /\ pc'[w] # "branch")
            => IF game_was_running[w]
                 THEN /\ pc'[w] = "disc_reset"
                      /\ last_call'[w] = <<"reset">>
                      /\ last_event'[w] = "reset"
                      /\ poll_calls'[w] = 1
                 ELSE /\ pc'[w] = "sleep"
                      /\ last_call'[w] = NoCall
                      /\ last_event'[w] = last_event[w]
                      /\ called'[w] = called[w]
                      /\ poll_calls'[w] = 0]_vars
  /\ [][\A w \in Workers :
          (last_event'[w] = "waiting" /\ last_event[w] # "waiting")
            => /\ pc[w] = "disc_reset"
               /\ last_event[w] = "reset"
               /\ poll_calls[w] = 1
               /\ poll_calls'[w] = 1]_vars
  /\ [](\A w \in Workers :
          last_event[w] = "waiting" => ~game_was_running[w] /\ poll_calls[w] <= 1)

C2_Witness ==
  \E w \in Workers :
    /\ pc[w] = "sleep" /\ last_event[w] = "waiting"
    /\ game_time[w] = None /\ poll_calls[w] = 0 /\ called[w]

\* C3: once the running flag is cleared inside the poll loop it stays cleared,
\* the next test of either loop condition ends that loop, and leaving the poll
\* loop issues exactly one reset(), whatever the latest poll found; "stopped"
\* is emitted right after that call returns, and the worker emits and sends
\* nothing afterwards.  With the worker thread scheduled fairly, a cleared flag
\* inside the loop leads to "stopped" unless the process ends first.
C3_StopResetsOnceThenStopped ==
  /\ [][\A w \in Workers :
          (pc[w] \in LoopPcs /\ ~_running[w]) => ~_running'[w]]_vars
  /\ [][\A w \in Workers :
          (pc[w] \in LoopPcs /\ pc'[w] \notin LoopPcs)
            => /\ pc'[w] = "cleanup_reset"
               /\ last_event'[w] = "reset"
               /\ last_call'[w] = <<"reset">>
               /\ cleanup_resets[w] = 0
               /\ cleanup_resets'[w] = 1]_vars
  /\ [][\A w \in Workers :
          (last_event'[w] = "stopped" /\ last_event[w] # "stopped")
            => /\ pc[w] = "cleanup_reset"
               /\ last_event[w] = "reset"
               /\ cleanup_resets'[w] = 1]_vars
  /\ [][\A w \in Workers :
          (last_event[w] = "stopped" /\ pc'[w] # "finished")
            => /\ pc'[w] = "returned"
               /\ last_event'[w] = "stopped"
               /\ last_call'[w] = last_call[w]
               /\ cleanup_resets'[w] = 1]_vars
  /\ [][\A w \in Workers :
          (~_running[w] /\ pc'[w] # pc[w])
            => /\ pc[w] = "loop" => pc'[w] = "cleanup_reset"
               /\ pc[w] = "sleep" => pc'[w] = "loop"
               /\ pc'[w] # "slice"]_vars
  /\ \A w \in Workers :
       (pc[w] \in LoopPcs /\ ~_running[w]) ~> (last_event[w] = "stopped" \/ ~Alive)

C3_Witness ==
  \E w \in Workers :
    /\ pc[w] = "returned" /\ last_event[w] = "stopped" /\ stop_requested[w]
    /\ game_time[w] = None /\ ~game_was_running[w] /\ cleanup_resets[w] = 1

\* C4: a stop() made at any moment after start(), also before run() has set
\* its running flag, is honoured under fair scheduling: the worker gets to its
\* cleanup and returns (unless the process ends first), and a window blocked
\* in wait() after stop() gets back to its event loop.
C4_StopAlwaysHonoured ==
  /\ \A w \in Workers :
       stop_requested[w] ~> (pc[w] \in {"returned", "finished"} \/ ~Alive)
  /\ (main_pc = "wait") ~> (main_pc = "gui")

\* C5: every poll of the GUI worker that yields a game time issues exactly one
\* set_light() carrying calculate_light() of that time and then emits one
\* light_updated with that time, brightness and Kelvin, whatever the values
\* of the iteration before were.
C5_EveryTimedPollApplies ==
  /\ [][\A w \in Workers :
          (pc[w] = "branch" /\ game_time[w] # None /\ pc'[w] # "branch")
            => pc'[w] = "calc" /\ poll_calls'[w] = 0]_vars
  /\ [][\A w \in Workers :
          (pc[w] = "calc" /\ pc'[w] # "calc")
            => /\ pc'[w] = "set_light"
               /\ last_event'[w] = "set_light"
               /\ last_call'[w] = <<"set_light", calculate_light(game_time[w])[1],
                                    calculate_light(game_time[w])[2]>>
               /\ poll_calls'[w] = 1]_vars
  /\ [][\A w \in Workers :
          (pc[w] = "set_light" /\ pc'[w] # "set_light")
            => /\ pc'[w] = "sleep"
               /\ last_event'[w] = "light_updated"
               /\ last_update'[w] = <<game_time[w], calculate_light(game_time[w])[1],
                                      calculate_light(game_time[w])[2]>>
               /\ last_call'[w] = last_call[w]
               /\ poll_calls'[w] = 1]_vars
  /\ [](\A w \in Workers :
          (pc[w] \in {"sleep", "slice"} /\ game_time[w] # None)
            => /\ poll_calls[w] = 1
               /\ last_call[w] = <<"set_light", calculate_light(game_time[w])[1],
                                   calculate_light(game_time[w])[2]>>
               /\ last_update[w] = <<game_time[w], last_call[w][2], last_call[w][3]>>)

C5_Witness ==
  \E w \in Workers :
    /\ pc[w] = "sleep" /\ last_event[w] = "light_updated"
    /\ last_update[w] = <<375, 134, 3850>> /\ last_call[w] = <<"set_light", 134, 3850>>
    /\ poll_calls[w] = 1

\* C6: when a light command issued while the game is connected fails with a
\* network or HTTP-status error and the game stays connected, the next poll
\* cycle issues a light command again; stated for the command-line loop, which
\* tracks the last-applied pair.
C6_FailedCommandRetried ==
  [][(/\ cli_pc = "branch" /\ cli_pc' # "branch"
      /\ cli_failed /\ cli_game_was_running /\ cli_game_time # None)
       => (cli_pc' = "set_light" /\ cli_issued'[1] = "set_light")]_vars

\* C7: once the poll loop has started the worker leaves it only towards its
\* cleanup and only when stop() has cleared the running flag; no telemetry
\* outcome and no light-controller outcome ends the loop or kills the worker.
C7_LoopEndsOnlyOnStop ==
  /\ [][\A w \in Workers :
          (pc[w] \in LoopPcs /\ pc'[w] \notin LoopPcs)
            => /\ pc[w] = "loop"
               /\ ~_running[w]
               /\ stop_requested[w]
               /\ pc'[w] = "cleanup_reset"]_vars
  /\ [][\A w \in Workers :
          (pc[w] \in LoopPcs /\ _running[w] /\ pc'[w] # pc[w]) => pc'[w] \in LoopPcs]_vars
  /\ [](\A w \in Workers : pc[w] # "died")

C7_Witness ==
  \E w \in Workers :
    /\ pc[w] = "sleep" /\ _running[w] /\ ~stop_requested[w]
    /\ last_outcome[w] = "httperr" /\ last_call[w][1] = "set_light"

\* C8 as stated: on every path by which run() terminates, the explicit stop
\* and the fatal-configuration exit alike, exactly one reset of the light has
\* been attempted.
C8_EveryExitResetsOnce ==
  \A w \in Workers : pc[w] = "returned" => cleanup_resets[w] = 1

\* C8 amended: a run ended by stop() attempts the cleanup reset exactly once
\* and does not retry it whatever its outcome; a run ended by a fatal
\* configuration error (no token) returns without any light call.
C8_StopExitResetsOnceErrorExitNever ==
  /\ [](\A w \in Workers :
          pc[w] = "returned"
            => /\ last_event[w] \in {"stopped", "error"}
               /\ last_event[w] = "stopped"
                    => cleanup_resets[w] = 1 /\ last_call[w] = <<"reset">>
               /\ last_event[w] = "error"
                    => cleanup_resets[w] = 0 /\ ~called[w] /\ last_call[w] = NoCall)
  /\ [][\A w \in Workers :
          (pc[w] = "cleanup_reset" /\ pc'[w] # pc[w])
            => /\ pc'[w] = "returned"
               /\ cleanup_resets'[w] = 1
               /\ last_call'[w] = last_call[w]]_vars
  /\ [][\A w \in Workers :
          (pc[w] = "load" /\ pc'[w] = "returned")
            => /\ last_event'[w] = "error"
               /\ cleanup_resets'[w] = 0
               /\ ~called'[w]]_vars

C8_Witness ==
  \E w \in Workers :
    /\ pc[w] = "returned" /\ last_event[w] = "stopped"
    /\ last_outcome[w] \in {"neterr", "httperr"} /\ cleanup_resets[w] = 1
    /\ last_call[w] = <<"reset">> /\ stop_requested[w]

\* C9: at most one worker thread executes at any moment; while the window's
\* worker is running no step (a start_sync() call included) creates or starts
\* a worker or touches the buttons' start state, and the restart after the
\* settings dialog starts the new worker only once the old one has finished.
C9_AtMostOneWorker ==
  /\ [](Cardinality({w \in Workers : isRunning(w)}) <= 1)
  /\ [][(worker # 0 /\ isRunning(worker))
          => /\ worker' = worker
             /\ nworkers' = nworkers
             /\ \A w \in Workers : pc[w] = "unstarted" => pc'[w] = "unstarted"
             /\ start_enabled => start_enabled']_vars
  /\ [][\A w \in Workers :
          (pc[w] = "unstarted" /\ pc'[w] # "unstarted")
            => /\ pc'[w] = "load"
               /\ worker' = w
               /\ \A v \in Workers : ~isRunning(v)]_vars
  /\ [][(main_pc = "wait" /\ main_pc' # "wait")
          => /\ pc[worker] = "finished"
             /\ worker' = worker + 1
             /\ pc'[worker'] = "load"
             /\ main_pc' = "gui"]_vars

C9_Witness ==
  /\ main_pc = "gui" /\ start_enabled
  /\ worker = 2 /\ pc[2] \in LoopPcs /\ pc[1] = "finished"

\* C10: at any moment at most one caller is inside a light-controller call:
\* the worker thread's set_light()/reset_to_default() never overlaps with the
\* exit-time reset of _reset_light_on_exit() nor with another worker's call.
C10_SingleLightCaller ==
  Cardinality({w \in Workers : InLightCall(w)})
    + (IF main_pc = "exit_reset" THEN 1 ELSE 0) <= 1

\* C11: in the command-line loop a connected poll issues set_light() exactly
\* when the computed brightness or Kelvin differs from the last-applied pair,
\* and with the computed pair; the pair is empty at start and after every
\* disconnect, so the first connected poll after either issues a command.
C11_CliIssuesIffChanged ==
  /\ [][(cli_pc = "branch" /\ cli_game_time # None /\ cli_pc' # "branch")
          => LET bk == calculate_light(cli_game_time)
                 differs == bk[1] # last_brightness \/ bk[2] # last_color_temp
             IN  /\ differs => (cli_pc' = "set_light"
                                /\ cli_issued' = <<"set_light", bk[1], bk[2]>>)
                 /\ ~differs => (cli_pc' = "sleep" /\ cli_issued' = NoCall)
                 /\ ~cli_game_was_running => differs]_vars
  /\ [](~cli_game_was_running => (last_brightness = None /\ last_color_temp = None))
  /\ [][(cli_game_was_running /\ ~cli_game_was_running')
          => (cli_pc = "disc_reset" /\ last_brightness' = None
              /\ last_color_temp' = None)]_vars
  /\ [](cli_pc \in {"poll", "branch"} => cli_issued = NoCall)

C11_Witness ==
  /\ cli_pc = "sleep" /\ cli_game_was_running /\ cli_game_time # None
  /\ cli_issued = NoCall
  /\ last_brightness = calculate_light(cli_game_time)[1]
  /\ last_color_temp = calculate_light(cli_game_time)[2]

\* C12: every set_light(brightness, kelvin) sends one request: for brightness
\* 0 a "turn_off" whose payload holds only the entity identifier and the
\* transition; otherwise a "turn_on" holding the entity identifier, that
\* brightness, the mireds of that Kelvin and the transition.
C12_SetLightRequest ==
  [](ha_op # NoCall /\ ha_op[1] = "set_light"
       => /\ ha_posts = 1
          /\ ha_request.payload.entity_id = entity_id
          /\ ha_request.payload.transition = transition
          /\ IF ha_op[2] = 0
               THEN /\ ha_request.service = "turn_off"
                    /\ DOMAIN ha_request.payload = {"entity_id", "transition"}
               ELSE /\ ha_request.service = "turn_on"
                    /\ DOMAIN ha_request.payload
                         = {"entity_id", "brightness", "color_temp", "transition"}
                    /\ ha_request.payload.brightness = ha_op[2]
                    /\ 2 * ha_request.payload.color_temp * ha_op[3] - 2000000 <= ha_op[3]
                    /\ 2000000 - 2 * ha_request.payload.color_temp * ha_op[3] <= ha_op[3])

C12_Witness ==
  /\ ha_pc = "idle" /\ ha_outcome = "ok" /\ ha_op = <<"set_light", 0, 4000>>
  /\ ha_request.service = "turn_off"

\* C13: no "turn_on" request with brightness 0 is ever sent, neither by
\* set_light() nor by reset_to_default() with a default brightness of 0.
C13_NoTurnOnAtZero ==
  ~(/\ ha_request.service = "turn_on"
    /\ ha_request.payload.brightness = 0)

\* C14: each set_light() or reset_to_default() makes exactly one POST and then
\* returns to its caller whatever the outcome of the POST (success, network
\* error, timeout, HTTP error status); nothing is retried and the client's
\* fields are what they were before the call.
C14_OnePostThenReturn ==
  /\ [](ha_pc = "posting" => ha_posts = 1)
  /\ [](ha_pc # "raised")
  /\ [][(ha_pc = "posting" /\ havars' # havars)
          => /\ ha_pc' = "idle"
             /\ ha_posts' = 1
             /\ ha_request' = ha_request
             /\ ha_outcome' \in PostOutcomes
             /\ default_brightness' = default_brightness
             /\ default_color_temp_k' = default_color_temp_k
             /\ transition' = transition]_vars
  /\ [][(ha_pc = "idle" /\ ha_pc' = "posting")
          => /\ ha_posts' = 1
             /\ ha_outcome' = ha_outcome
             /\ ha_request' \in {reset_to_default}
                  \cup {set_light(b, k) : b \in BrightnessSamples, k \in KelvinSamples}]_vars

C14_Witness ==
  /\ ha_pc = "idle" /\ ha_outcome = "timeout" /\ ha_posts = 1 /\ ha_op = <<"reset">>

\* C15: _kelvin_to_mireds(kelvin) is the integer nearest to 1,000,000 / kelvin
\* for every Kelvin of 1000..10000, with 4000 -> 250 and 2700 -> 370.
C15_MiredsNearest ==
  mireds # None
    => /\ 2 * (mireds * kelvin - 1000000) <= kelvin
       /\ 2 * (1000000 - mireds * kelvin) <= kelvin
       /\ kelvin = 4000 => mireds = 250
       /\ kelvin = 2700 => mireds = 370

C15_Witness ==
  /\ kelvin = 3200 /\ mireds = 312

\* the four cache fields of location.py
LocCache == <<_cached_x, _cached_z, _cached_tz_name, _cached_offset_min>>

\* a step that is a get_timezone_offset() call, a reset_cache() call
ResolveStep == loc_event' = "resolve" /\ tz_lookup' = tz_lookup
ResetStep == loc_event' = "reset" /\ tz_lookup' = tz_lookup
\* the call of a step had, the latest call had, a position without NaN
QueryIsPosition == ~isnan(loc_query'[1]) /\ ~isnan(loc_query'[2])
LastQueryIsPosition ==
  loc_query # <<NoCoord, NoCoord>> /\ ~isnan(loc_query[1]) /\ ~isnan(loc_query[2])

\* C16: get_timezone_offset(x, z) with x or z NaN returns (0, None) in every
\* cache state, performs no lookup and leaves the four cache fields unchanged.
C16_NaNReturnsZeroNone ==
  /\ [][(ResolveStep /\ ~QueryIsPosition)
          => /\ loc_result' = <<0, NoTz>>
             /\ ~loc_looked'
             /\ loc_origin' = loc_origin
             /\ LocCache' = LocCache]_vars
  /\ [](isnan(_cached_x) = FALSE /\ isnan(_cached_z) = FALSE)

C16_Witness ==
  /\ loc_event = "resolve" /\ loc_query = <<NaN, 4000>> /\ loc_result = <<0, NoTz>>
  /\ _cached_x = 3000 /\ _cached_tz_name = "Europe/Paris" /\ _cached_offset_min = 60

\* C17: a call at a position closer than the threshold to the cached position
\* returns exactly the cached (offset, name) without a lookup, whatever the
\* lookup would answer now, leaves the cache unchanged, and so repeats the
\* result of the call before it.
C17_CacheHitReturnsCached ==
  /\ [][(ResolveStep /\ QueryIsPosition /\ _cached_x # NoCoord
         /\ Near(loc_query'[1], loc_query'[2], _cached_x, _cached_z))
          => /\ loc_result' = <<_cached_offset_min, _cached_tz_name>>
             /\ ~loc_looked'
             /\ loc_origin' = loc_origin
             /\ LocCache' = LocCache]_vars
  /\ [][(ResolveStep /\ QueryIsPosition /\ _cached_x # NoCoord
         /\ Near(loc_query'[1], loc_query'[2], _cached_x, _cached_z)
         /\ loc_event = "resolve" /\ LastQueryIsPosition)
          => loc_result' = loc_result]_vars

C17_Witness ==
  /\ loc_event = "resolve" /\ loc_query = <<4999, 0>> /\ ~loc_looked
  /\ loc_result = <<60, "Europe/Paris">> /\ loc_origin = <<0, 0, 60, "Europe/Paris">>
  /\ tz_lookup = <<"exception">>

\* C18: every tuple returned for a position without NaN was produced by a
\* lookup made closer than the threshold to that position: a call with an
\* empty cache, or at or beyond the threshold from the cached position, looks
\* up afresh and makes its position the cached one; a cache hit never moves
\* the cached position.
C18_ResultFromNearbyLookup ==
  /\ [](LastQueryIsPosition
          => /\ loc_origin # NoCall
             /\ loc_result = <<loc_origin[3], loc_origin[4]>>
             /\ Near(loc_query[1], loc_query[2], loc_origin[1], loc_origin[2]))
  /\ [][(ResolveStep /\ QueryIsPosition
         /\ (_cached_x = NoCoord
             \/ ~Near(loc_query'[1], loc_query'[2], _cached_x, _cached_z)))
          => /\ loc_looked'
             /\ _cached_x' = loc_query'[1] /\ _cached_z' = loc_query'[2]
             /\ loc_result' = Lookup
             /\ <<_cached_offset_min', _cached_tz_name'>> = loc_result'
             /\ loc_origin' = <<loc_query'[1], loc_query'[2], Lookup[1], Lookup[2]>>]_vars
  /\ [][(ResolveStep /\ ~loc_looked')
          => (_cached_x' = _cached_x /\ _cached_z' = _cached_z)]_vars

C18_Witness ==
  /\ loc_event = "resolve" /\ loc_looked /\ loc_query = <<3000, 4000>>
  /\ _cached_x = 3000 /\ _cached_z = 4000 /\ loc_result = <<120, "Europe/Helsinki">>

\* C19: when a fresh resolution fails (no timezone found, or an exception),
\* the call returns (0, None) and caches its position with offset 0 and no
\* name; calls within the threshold of that position then return (0, None)
\* without a lookup.
C19_FailureIsCached ==
  /\ [][(ResolveStep /\ QueryIsPosition
         /\ ~CacheHit(loc_query'[1], loc_query'[2])
         /\ tz_lookup[1] \in {"notfound", "exception"})
          => /\ loc_looked'
             /\ loc_result' = <<0, NoTz>>
             /\ LocCache' = <<loc_query'[1], loc_query'[2], NoTz, 0>>]_vars
  /\ [][(ResolveStep /\ QueryIsPosition
         /\ _cached_x # NoCoord /\ _cached_tz_name = NoTz
         /\ Near(loc_query'[1], loc_query'[2], _cached_x, _cached_z))
          => /\ loc_result' = <<0, NoTz>>
             /\ ~loc_looked'
             /\ LocCache' = LocCache]_vars
  /\ [](_cached_tz_name = NoTz => _cached_offset_min = 0)

C19_Witness ==
  /\ loc_event = "resolve" /\ ~loc_looked /\ loc_query = <<4999, 0>>
  /\ loc_result = <<0, NoTz>> /\ LocCache = <<0, 0, NoTz, 0>>
  /\ loc_origin = <<0, 0, 0, NoTz>> /\ tz_lookup[1] = "found"

\* C20: reset_cache() puts the four cache fields back to none, none, none, 0,
\* and the first call with a position without NaN after it looks up afresh,
\* whatever was cached before and however close the position is to it.
C20_ResetForcesLookup ==
  /\ [][ResetStep => LocCache' = <<NoCoord, NoCoord, NoTz, 0>>]_vars
  /\ [](loc_fresh => LocCache = <<NoCoord, NoCoord, NoTz, 0>>)
  /\ [][(ResolveStep /\ QueryIsPosition /\ loc_fresh)
          => /\ loc_looked'
             /\ loc_result' = Lookup
             /\ loc_origin' = <<loc_query'[1], loc_query'[2], Lookup[1], Lookup[2]>>]_vars
  /\ []((loc_event = "resolve" /\ LastQueryIsPosition
         /\ ~loc_fresh /\ loc_before_reset[1] # NoCoord)
          => /\ loc_looked
             /\ <<loc_origin[1], loc_origin[2]>> = loc_query
             /\ <<_cached_x, _cached_z>> = loc_query)

C20_Witness ==
  /\ loc_event = "resolve" /\ loc_looked /\ loc_query = <<4999, 0>>
  /\ loc_before_reset = <<0, 0>> /\ ~loc_fresh
  /\ loc_result = <<0, NoTz>> /\ tz_lookup = <<"notfound">>
  /\ LocCache = <<4999, 0, NoTz, 0>>

\* C21: whenever the worker detects a fresh connect (a poll yields a game time
\* while game_was_running is false), that step of run() calls reset_cache(),
\* so the timezone cache is empty before anything of the new session is
\* resolved.
C21_FreshConnectResetsCache ==
  [][\A w \in Workers :
       (pc[w] = "branch" /\ game_time[w] # None
        /\ ~game_was_running[w] /\ game_was_running'[w])
         => (loc_event' = "reset" /\ loc_fresh')]_vars

\* C22: get_timezone_offset() never raises: for every position and every
\* answer of the lookup (a timezone, none, an exception) it returns a pair;
\* on every failure path, and for NaN, the pair is (0, None), and a timezone
\* found is returned with its offset.
C22_ResolveNeverRaises ==
  /\ [](loc_event = "resolve"
          => /\ Len(loc_result) = 2
             /\ loc_result \in {<<0, NoTz>>} \cup TzSamples)
  /\ [][(ResolveStep /\ QueryIsPosition
         /\ ~CacheHit(loc_query'[1], loc_query'[2]))
          => loc_result' = (IF tz_lookup[1] = "found"
                              THEN <<tz_lookup[2], tz_lookup[3]>> ELSE <<0, NoTz>>)]_vars
  /\ [][(ResolveStep /\ ~QueryIsPosition) => loc_result' = <<0, NoTz>>]_vars

C22_Witness ==
  /\ loc_event = "resolve" /\ loc_looked /\ loc_query = <<5000, 4000>>
  /\ tz_lookup = <<"exception">> /\ loc_result = <<0, NoTz>>
  /\ LocCache = <<5000, 4000, NoTz, 0>>

\* the call that has returned read a published, decodable block
TelReadable ==
  /\ tel_env.platform = "win32"
  /\ tel_env.open = "handle"
  /\ tel_env.map = "ptr"
  /\ tel_env.sdk_active
  /\ tel_env.decode = "ok"

\* C23: a telemetry read returns a snapshot exactly when the mapping exists,
\* the view is mapped, the SDK-active flag is true and decoding raised
\* nothing; in every other case, the foreign platform included, it returns
\* None, and no exception ever reaches the caller.
C23_SnapshotIffReadable ==
  [](tel_pc = "done"
       => /\ tel_result # Exc
          /\ (TelReadable <=> Len(tel_result) = 4)
          /\ (~TelReadable <=> tel_result = TelNone))

C23_Witness ==
  /\ tel_pc = "done"
  /\ tel_env.platform = "win32" /\ tel_env.open = "handle" /\ tel_env.map = "ptr"
  /\ ~tel_env.sdk_active /\ tel_env.decode = "ok"
  /\ tel_result = TelNone

\* C24: whenever a read has returned, and before the first one, no handle is
\* open and no view is mapped, whichever way the read ended; a view is only
\* ever held together with its handle.
C24_NothingHeldBetweenReads ==
  /\ [](tel_pc \in {"idle", "done"} => (~tel_handle /\ ~tel_view))
  /\ [](tel_view => tel_handle)
  /\ [][(tel_pc # "done" /\ tel_pc' = "done" /\ tel_env.platform = "win32"
         /\ tel_env.open = "handle")
          => (tel_handle /\ ~tel_handle' /\ ~tel_view')]_vars

C24_Witness ==
  /\ tel_pc = "done" /\ ~tel_handle /\ ~tel_view
  /\ tel_env.platform = "win32" /\ tel_env.open = "handle" /\ tel_env.map = "ptr"
  /\ tel_env.decode = "exception" /\ tel_pending = Exc

\* true when g is the counter hi * 65536 + lo reduced modulo 1440
IsCounterMod1440(g, time_abs) ==
  /\ g \in 0..1439
  /\ IF time_abs[1] < 32768
       THEN g = (time_abs[1] * 65536 + time_abs[2]) % 1440
       ELSE g = ((((time_abs[1] - 32768) * 65536 + time_abs[2]) % 1440) + 128) % 1440

\* C25: the game time of every snapshot is the unsigned 32-bit minutes
\* counter modulo 1440, hence an integer in 0..1439, for every counter value;
\* the simulated clock yields only integers in 0..1439 as well.
C25_GameTimeInDay ==
  /\ [](Len(tel_result) = 4 => IsCounterMod1440(tel_result[1], tel_env.time_abs))
  /\ [](tel_sim # None => tel_sim \in 0..1439)

C25_Witness ==
  /\ tel_pc = "done" /\ Len(tel_result) = 4
  /\ tel_env.time_abs = <<65535, 65535>> /\ tel_result[1] = 255
  /\ tel_sim_args = <<1439, 100000>> /\ tel_sim = 639

\* the double x lies in lo..hi
Within(x, lo, hi) == lo <= x[1] /\ (x[1] < hi \/ (x[1] = hi /\ x[2] = 0))

\* C26: for a waypoint list whose values are in range, the interpolated and the
\* rounded brightness lie in 0..255 and the Kelvin in 1000..10000 at every
\* time; calculate_light() stays between the night and the day values.
C26_ResultInRange ==
  [](ev_pc = "done"
       => IF ev_curve # NoCall
            THEN /\ ev_out[1] \in 0..255
                 /\ ev_out[2] \in 1000..10000
                 /\ Within(ev_raw[1], 0, 255)
                 /\ Within(ev_raw[2], 1000, 10000)
            ELSE /\ ev_out[1] \in NIGHT_BRIGHTNESS..DAY_BRIGHTNESS
                 /\ ev_out[2] \in NIGHT_KELVIN..DAY_KELVIN)

C26_Witness ==
  /\ ev_pc = "done"
  /\ ev_curve = <<<<0, 0, 1000>>, <<360, 255, 5500>>, <<720, 128, 10000>>>>
  /\ ev_t = 540
  /\ ev_out = <<192, 7750>>

\* C27: evaluation has period 1440: the values at t and at t + 1440 * k are the
\* same for every waypoint list, and for calculate_light(), also for negative k.
C27_Periodic ==
  [](ev_pc = "done" => ev_out = ev_shifted)

C27_Witness ==
  /\ ev_pc = "done"
  /\ ev_curve = <<<<0, 0, 1000>>, <<360, 255, 5500>>>>
  /\ ev_t = 180 /\ ev_k = 0 - 2
  /\ ev_out = <<127, 3250>> /\ ev_shifted = <<127, 3250>>

\* the waypoints calculate_light() blends between
BuiltInAnchors ==
  <<<<NIGHT_END_MIN, NIGHT_BRIGHTNESS, NIGHT_KELVIN>>,
    <<DAWN_END_MIN, DAY_BRIGHTNESS, DAY_KELVIN>>,
    <<DUSK_START_MIN, DAY_BRIGHTNESS, DAY_KELVIN>>,
    <<NIGHT_START_MIN, NIGHT_BRIGHTNESS, NIGHT_KELVIN>>>>

\* the waypoints an evaluation at ev_t is held against
Anchors == IF ev_curve = NoCall THEN BuiltInAnchors ELSE ev_curve

\* C28 as stated: at the exact time of every waypoint, the last one included,
\* the evaluation returns that waypoint's brightness and Kelvin.
C28_EveryWaypointExact ==
  [](ev_pc = "done"
       => \A i \in 1..Len(Anchors) :
            Anchors[i][1] = ev_t => ev_out = <<Anchors[i][2], Anchors[i][3]>>)

\* C28, amended: at the exact time of every waypoint but the last of a list,
\* the evaluation returns that waypoint's values; at the time of the last
\* waypoint of a list it returns the values of the first waypoint.
C28_WaypointExactLastGivesFirst ==
  [](ev_pc = "done"
       => \A i \in 1..Len(Anchors) :
            Anchors[i][1] = ev_t
              => ev_out = IF ev_curve # NoCall /\ i = Len(ev_curve)
                            THEN <<ev_curve[1][2], ev_curve[1][3]>>
                            ELSE <<Anchors[i][2], Anchors[i][3]>>)

C28_Witness ==
  /\ ev_pc = "done"
  /\ ev_curve = <<<<0, 13, 2200>>, <<720, 255, 5500>>, <<1080, 128, 10000>>>>
  /\ ev_t = 1080
  /\ ev_out = <<13, 2200>>

\* the pairs of consecutive waypoints that hold the normalised time
Bracketing == {i \in 1..(Len(ev_curve) - 1) :
                 ev_curve[i][1] <= ev_t % 1440 /\ ev_t % 1440 < ev_curve[i + 1][1]}

\* v lies between a and b
Between(v, a, b) == (a <= v /\ v <= b) \/ (b <= v /\ v <= a)

\* C29: at most one pair of consecutive waypoints has t0 <= t < t1 for t taken
\* modulo 1440; the result is the blend of that pair alone and lies between
\* the pair's values; when no pair holds t the result is the first waypoint's
\* brightness and Kelvin.
C29_BlendsBracketingPair ==
  []((ev_pc = "done" /\ ev_curve # NoCall)
       => /\ Cardinality(Bracketing) <= 1
          /\ (Bracketing = {} => ev_out = <<ev_curve[1][2], ev_curve[1][3]>>)
          /\ \A i \in Bracketing :
               /\ ev_out = evaluate(<<ev_curve[i], ev_curve[i + 1]>>, ev_t % 1440)
               /\ Between(ev_out[1], ev_curve[i][2], ev_curve[i + 1][2])
               /\ Between(ev_out[2], ev_curve[i][3], ev_curve[i + 1][3]))

C29_Witness ==
  /\ ev_pc = "done"
  /\ ev_curve = <<<<360, 13, 2200>>, <<720, 255, 5500>>, <<1080, 128, 10000>>>>
  /\ ev_t = 900
  /\ Bracketing = {2}
  /\ ev_out = <<192, 7750>>

\* a final waypoint at 1440 carries the brightness and Kelvin of the first
WrapContinuous(wps) ==
  wps[Len(wps)][1] = 1440
    => (wps[Len(wps)][2] = wps[1][2] /\ wps[Len(wps)][3] = wps[1][3])

\* C30: in the curve editor a final waypoint at 1440 always carries the
\* brightness and Kelvin of the first waypoint: drag, table edit, add, remove
\* and reset all keep it so.
C30_EditorKeepsWrapContinuity ==
  [](_wps # NoCall => WrapContinuous(_wps))

\* positions of run() in the wait between two polls (lines 117-120)
WaitPcs == {"sleep", "slice"}

\* C31: the wait between polls tests the running flag before every slice.  Once
\* stop() has cleared the flag while the worker waits, the slice in progress (if
\* any) is the last one, the next test of the wait's condition ends the wait
\* whatever the elapsed time, and the worker goes to its cleanup reset without
\* reading a game time or issuing a poll's light call.
C31_StopCutsWaitShort ==
  /\ [][\A w \in Workers :
          (~_running[w] /\ pc[w] = "slice" /\ pc'[w] # pc[w])
            => pc'[w] = "sleep" /\ elapsed'[w] = elapsed[w] + 1]_vars
  /\ [][\A w \in Workers :
          (~_running[w] /\ pc[w] = "sleep" /\ pc'[w] # pc[w])
            => pc'[w] = "loop" /\ elapsed'[w] = elapsed[w]]_vars
  /\ [][\A w \in Workers :
          (~_running[w] /\ pc[w] = "loop" /\ pc'[w] # pc[w])
            => /\ pc'[w] = "cleanup_reset"
               /\ last_call'[w] = <<"reset">>
               /\ cleanup_resets'[w] = 1
               /\ poll_calls'[w] = 0]_vars
  /\ [][\A w \in Workers :
          (~_running[w] /\ pc[w] \in WaitPcs \cup {"loop"})
            => /\ pc'[w] \in WaitPcs \cup {"loop", "cleanup_reset"}
               /\ game_time'[w] = game_time[w]
               /\ brightness'[w] = brightness[w]
               /\ last_update'[w] = last_update[w] \/ pc[w] = "loop"]_vars

\* the flag was cleared during the first slice of a wait: the wait ended after
\* that slice and the cleanup reset is under way
C31_Witness ==
  \E w \in Workers :
    /\ pc[w] = "cleanup_reset" /\ ~_running[w] /\ stop_requested[w]
    /\ elapsed[w] = 1 /\ last_call[w] = <<"reset">> /\ poll_calls[w] = 0

\* C32: the curve (0,0,2700), (360,255,5500), (1080,255,5200), (1200,0,2700),
\* (1440,0,2700) evaluated at 180, the middle of its dawn, gives brightness 128
\* and a Kelvin strictly between 2700 and 5500.
C32_ExampleDawnMidpoint ==
  (ev_pc = "done" /\ ev_curve = ExampleCurve /\ ev_t = 180)
    => (ev_out[1] = 128 /\ 2700 < ev_out[2] /\ ev_out[2] < 5500)

\* this step of worker w emits status s, or light_updated
Emitted(w, s) == last_event'[w] = s /\ last_event[w] # s

\* C33: the statuses of one run that got past its configuration are "running"
\* first and once, then "connected" and "waiting" by turns beginning with
\* "connected", then "stopped" once and last: "connected" follows "running" or
\* "waiting" only, "waiting" follows "connected" only, light_updated is emitted
\* only while the latest status is "connected", nothing follows "stopped", and
\* a run that has returned from its poll loop has emitted "stopped".
C33_StatusSequence ==
  /\ [][\A w \in Workers :
          /\ Emitted(w, "running") => last_status[w] = NoEvent /\ pc[w] = "configured"
          /\ Emitted(w, "connected") => last_status[w] \in {"running", "waiting"}
          /\ Emitted(w, "waiting") => last_status[w] = "connected"
          /\ Emitted(w, "stopped") => last_status[w] \in {"running", "connected", "waiting"}
          /\ Emitted(w, "light_updated") => last_status[w] = "connected"]_vars
  /\ [][\A w \in Workers :
          last_status'[w] # last_status[w]
            => (Emitted(w, last_status'[w]) \/ pc'[w] = "finished")]_vars
  /\ [][\A w \in Workers :
          (last_status[w] = "stopped" /\ pc'[w] # "finished")
            => last_event'[w] = "stopped" /\ last_status'[w] = "stopped"]_vars
  /\ [](\A w \in Workers :
          /\ pc[w] \in LoopPcs => last_status[w] \in {"running", "connected", "waiting"}
          /\ pc[w] = "cleanup_reset" => last_status[w] \in {"running", "connected", "waiting"}
          /\ (pc[w] = "returned" /\ last_status[w] # "error") => last_status[w] = "stopped")

\* a second "connected" of one run: a light call was issued before it
C33_Witness ==
  \E w \in Workers :
    /\ pc[w] = "calc" /\ last_event[w] = "connected" /\ last_status[w] = "connected"
    /\ called[w] /\ game_was_running[w]

\* C34: a poll that finds no game time while the game is not connected issues
\* no light call, emits no status and no light_updated and leaves the
\* connection flag cleared, in the GUI worker and in the command-line loop;
\* the wait that follows changes none of these either.
C34_IdlePollDoesNothing ==
  /\ [][\A w \in Workers :
          (/\ pc[w] = "branch" /\ game_time[w] = None /\ ~game_was_running[w]
           /\ pc'[w] # pc[w])
            => /\ pc'[w] = "sleep"
               /\ ~game_was_running'[w]
               /\ last_event'[w] = last_event[w]
               /\ last_status'[w] = last_status[w]
               /\ last_call'[w] = NoCall
               /\ last_update'[w] = NoCall
               /\ called'[w] = called[w]
               /\ poll_calls'[w] = 0
               /\ sigq' = sigq]_vars
  /\ [][\A w \in Workers :
          (pc[w] \in WaitPcs /\ game_time[w] = None /\ ~game_was_running[w])
            => /\ pc'[w] \in WaitPcs \cup {"loop"}
               /\ ~game_was_running'[w]
               /\ last_event'[w] = last_event[w]
               /\ last_status'[w] = last_status[w]
               /\ last_call'[w] = last_call[w]
               /\ last_update'[w] = last_update[w]
               /\ called'[w] = called[w]]_vars
  /\ [][(/\ cli_pc \in {"branch", "sleep"} /\ cli_game_time = None
         /\ ~cli_game_was_running /\ cli_pc' # cli_pc)
          => /\ cli_pc' = IF cli_pc = "branch" THEN "sleep" ELSE "loop"
             /\ ~cli_game_was_running'
             /\ cli_issued' = cli_issued
             /\ cli_pc = "branch" => cli_issued = NoCall
             /\ last_brightness' = last_brightness
             /\ last_color_temp' = last_color_temp]_vars

\* the worker waits after a poll without game time, never connected so far
C34_Witness ==
  \E w \in Workers :
    /\ pc[w] = "slice" /\ game_time[w] = None /\ ~game_was_running[w]
    /\ last_status[w] = "running" /\ last_event[w] = "running"
    /\ ~called[w] /\ poll_calls[w] = 0 /\ last_call[w] = NoCall

\* C35: a worker in simulated-time mode takes every game time from the
\* simulated clock and never finds it absent: its first poll emits
\* "connected", every poll issues one set_light(), "waiting" is never emitted
\* and the only reset() is the one of the cleanup after stop().
C35_SimModeAlwaysConnected ==
  /\ [](\A w \in Workers :
          sim[w]
            => /\ time_source[w] # "telemetry"
               /\ pc[w] \in {"branch", "calc", "set_light", "sleep", "slice"}
                    => time_source[w] = "sim" /\ game_time[w] # None
               /\ pc[w] \in {"calc", "set_light", "sleep", "slice"}
                    => game_was_running[w] /\ last_status[w] = "connected"
               /\ pc[w] \in WaitPcs
                    => poll_calls[w] = 1 /\ last_call[w][1] = "set_light"
               /\ last_status[w] # "waiting"
               /\ pc[w] # "disc_reset"
               /\ last_call[w] = <<"reset">>
                    => pc[w] \in {"cleanup_reset", "returned"} /\ cleanup_resets[w] = 1)
  /\ [][\A w \in Workers :
          (sim[w] /\ pc[w] = "branch" /\ pc'[w] # pc[w])
            => /\ pc'[w] = "calc"
               /\ last_status[w] = "running" <=> Emitted(w, "connected")]_vars
  /\ [][\A w \in Workers :
          (sim[w] /\ pc[w] = "calc" /\ pc'[w] # pc[w])
            => (pc'[w] = "set_light" /\ poll_calls'[w] = 1)]_vars

\* a worker in simulated-time mode was stopped and runs its cleanup reset after
\* a poll at 12:00
C35_Witness ==
  \E w \in Workers :
    /\ sim[w] /\ pc[w] = "cleanup_reset" /\ last_call[w] = <<"reset">>
    /\ last_status[w] = "connected" /\ game_time[w] = 720 /\ cleanup_resets[w] = 1

\* C36: whatever sequence of Start, Stop and settings restarts came before,
\* once the window has no queued signal left to handle, a worker inside its
\* poll loop has the Stop controls enabled and the Start controls disabled:
\* late "stopped" and finished signals of an earlier worker do not leave the
\* controls in the stopped configuration while a new worker runs.
C36_ControlsFollowWorker ==
  (/\ main_pc = "gui" /\ sigq = <<>>
   /\ \E w \in Workers : pc[w] \in LoopPcs)
    => (stop_enabled /\ ~start_enabled)

\* a list the editor may hold: three waypoints or more, times strictly
\* ascending, brightness 0..255, Kelvin 1000..10000
WellFormed(wps) ==
  /\ Len(wps) >= 3
  /\ Ascending(wps)
  /\ \A i \in 1..Len(wps) :
       /\ 0 <= wps[i][2] /\ wps[i][2] <= 255
       /\ 1000 <= wps[i][3] /\ wps[i][3] <= 10000

\* C37: from a list of at least 3 waypoints with strictly ascending times and
\* values in range, every sequence of editor operations keeps the times
\* strictly ascending, the first and the last time as they were, at least 3
\* waypoints, the first and the last waypoint in the list, every brightness in
\* 0..255 and every Kelvin in 1000..10000; a rejected table edit leaves the
\* list as it was.
C37_EditorKeepsListWellFormed ==
  /\ [](_wps # NoCall => WellFormed(_wps))
  /\ [][_wps # NoCall
          => /\ _wps'[1][1] = _wps[1][1]
             /\ _wps'[Len(_wps')][1] = _wps[Len(_wps)][1]
             /\ (ed_ops' # ed_ops /\ ed_event' = <<"remove", "ok">>)
                  => (_wps'[1] = _wps[1] /\ _wps'[Len(_wps')] = _wps[Len(_wps)])
             /\ (ed_ops' # ed_ops /\ ed_event' = <<"table", "rejected">>)
                  => _wps' = _wps]_vars

\* C38: calculate_light() gives a brightness of at least 1 at every minute of
\* the day, so the set_light() that a poll with a game time issues, in the GUI
\* worker and in the command-line loop, always sends "turn_on", never
\* "turn_off".
C38_BuiltInCurveNeverOff ==
  /\ [](\A w \in Workers :
          (last_call[w] # NoCall /\ last_call[w][1] = "set_light")
            => /\ last_call[w][2] \in 1..255
               /\ set_light(last_call[w][2], last_call[w][3]).service = "turn_on")
  /\ [](\A w \in Workers :
          brightness[w] # None => brightness[w] \in 1..255)
  /\ []((cli_issued # NoCall /\ cli_issued[1] = "set_light")
          => /\ cli_issued[2] \in 1..255
             /\ set_light(cli_issued[2], cli_issued[3]).service = "turn_on")
  /\ [][\A w \in Workers :
          (pc[w] = "calc" /\ pc'[w] # pc[w])
            => last_call'[w] = <<"set_light", calculate_light(game_time[w])[1],
                                 calculate_light(game_time[w])[2]>>]_vars
  /\ [][(cli_pc = "branch" /\ cli_game_time # None /\ cli_pc' = "set_light")
          => cli_issued' = <<"set_light", calculate_light(cli_game_time)[1],
                             calculate_light(cli_game_time)[2]>>]_vars

\* the worker has applied the light of midnight: the dimmest the curve gets
C38_Witness ==
  /\ pc[1] = "sleep" /\ game_time[1] = 0 /\ last_outcome[1] = "ok"
  /\ last_call[1] = <<"set_light", 13, 2200>>
  /\ set_light(13, 2200).service = "turn_on"
====
